---- MODULE Spec2Model ----
(***************************************************************************)
(* A model of dp-map-renderer: the TopoJSON decoder (vendor/rubenv/        *)
(* topojson), the drawing library (geojson2svg), the choropleth renderer   *)
(* (renderer), the figure (htmlutil) and the service around them.          *)
(*                                                                         *)
(* Conventions.  A Go []float64 point is a pair <<x, y>> of integers (the  *)
(* arithmetic used is exact on small integers in float64).  A Go string is *)
(* a sequence of tokens, so that concatenation is \o and "" is <<>>.  A    *)
(* Go slice index i is the TLA+ index i + 1.  A run-time panic is the      *)
(* result Panic.                                                           *)
(***************************************************************************)
EXTENDS Integers, Sequences, FiniteSets, TLC

VARIABLES
    svgValue,    \* the geojson2svg.SVG that Append*, Draw and GetHeightForWidth work on
    Arcs,        \* Topology.Arcs: sequence of arcs, each a sequence of points
    Transform,   \* Topology.Transform: [present, Scale, Translate]
    Objects,     \* Topology.Objects: the named geometries (a sequence stands for the map)
    lsIn,        \* the arc index list handed to packLinestring
    lsOut,       \* what packLinestring returned for lsIn
    props,       \* the heap of Properties maps: address -> map (address 0 is the nil map)
    fc,          \* what ToGeoJSON returned
    request,     \* the models.RenderRequest being rendered
    svgRequest,  \* the SVGRequest PrepareSVGRequest returned last
    out,         \* what the last renderer call returned
    renders,     \* how many times RenderSVG has run
    lookup,      \* one colour lookup: breaks, value, sorted breaks, colour
    pngConverter, \* the renderer package's pngConverter: "nil" or "exe"
    files,       \* the files of the working directory
    calls,       \* the renders in flight: position, reads of pngConverter, Convert's locals
    http,        \* the http request handed to renderMap: render type and body
    rendering,   \* the render of html.go that waits for Convert: what it has so far
    pc           \* position of the caller

renderVars == <<request, svgRequest, out, renders, lookup>>

serverVars == <<pngConverter, files, calls, http, rendering>>

vars == <<svgValue, Arcs, Transform, Objects, props, lsIn, lsOut, fc, renderVars,
          serverVars, pc>>

----------------------------------------------------------------------------
(* Bounds of the model *)

MaxArcs == 2
MaxLineLen == 2
MaxChildren == 2

----------------------------------------------------------------------------
(* Generic helpers *)

Reverse(s) == [i \in 1..Len(s) |-> s[Len(s) + 1 - i]]

SeqsUpTo(S, n) == UNION {[1..k -> S] : k \in 0..n}

NonEmptySeqsUpTo(S, n) == UNION {[1..k -> S] : k \in 1..n}

RECURSIVE Concat(_)
Concat(ss) == IF ss = <<>> THEN <<>> ELSE Head(ss) \o Concat(Tail(ss))

----------------------------------------------------------------------------
(* Results of a call that may panic *)

Panic == [ok |-> FALSE, val |-> <<>>]

Ok(v) == [ok |-> TRUE, val |-> v]

NotRun == [ok |-> TRUE, val |-> <<"not run">>]

(* No converter assigned, an empty working directory, no render in flight *)
(* and no http request                                                     *)
IdleConvert ==
    /\ pngConverter = "nil"
    /\ files = {}
    /\ calls = <<>>
    /\ http = <<>>
    /\ rendering = <<>>

(* The renderer's variables while no request is being rendered *)
IdleRender ==
    /\ svgValue = <<>>
    /\ request = <<>>
    /\ svgRequest = <<>>
    /\ out = NotRun
    /\ renders = 0
    /\ lookup = <<>>

----------------------------------------------------------------------------
(* Topology.Transform *)

NoTransform == [present |-> FALSE, Scale |-> <<1, 1>>, Translate |-> <<0, 0>>]

MkTransform(sx, sy, tx, ty) ==
    [present |-> TRUE, Scale |-> <<sx, sy>>, Translate |-> <<tx, ty>>]

(* packPoint: a point outside any arc is scaled and translated on its own *)
packPoint(tr, in) ==
    IF ~tr.present THEN in
    ELSE <<in[1] * tr.Scale[1] + tr.Translate[1],
           in[2] * tr.Scale[2] + tr.Translate[2]>>

packPoints(tr, in) == [i \in 1..Len(in) |-> packPoint(tr, in[i])]

----------------------------------------------------------------------------
(* packLinestring *)

(* Go's ^a on a signed integer *)
Complement(a) == -a - 1

(* The loop over newArc of packLinestring: x and y accumulate the deltas,  *)
(* each accumulated point is scaled and translated.                        *)
RECURSIVE DeltaLoop(_, _, _, _, _)
DeltaLoop(tr, arc, k, x, y) ==
    IF k > Len(arc) THEN <<>>
    ELSE LET nx == x + arc[k][1]
             ny == y + arc[k][2]
         IN <<<<nx * tr.Scale[1] + tr.Translate[1],
                ny * tr.Scale[2] + tr.Translate[2]>>>>
            \o DeltaLoop(tr, arc, k + 1, nx, ny)

(* A plausible slip: every point transformed on its own, as packPoint does *)
DecodeArcNoSum(tr, arc) ==
    IF tr.present THEN packPoints(tr, arc) ELSE arc

(* The copy of one arc, decoded when the topology carries a Transform *)
DecodeArc(tr, arc) ==
    IF tr.present THEN DeltaLoop(tr, arc, 1, 0, 0) ELSE arc

(* A plausible slip: the reversed arc is appended in stored order *)
AppendArcNoReverse(result, newArc, reverse) == result \o newArc

(* The tail of the loop body: append the arc, reversed for a negative index *)
AppendArc(result, newArc, reverse) ==
    IF reverse THEN result \o Reverse(newArc) ELSE result \o newArc

(* t.Arcs[a]: Go panics when a is out of range *)
ArcInRange(arcs, a) == a >= 0 /\ a < Len(arcs)

RECURSIVE PackLoop(_, _, _, _)
PackLoop(arcs, tr, ls, result) ==
    IF ls = <<>> THEN Ok(result)
    ELSE LET a0 == Head(ls)
             reverse == a0 < 0
             a == IF a0 < 0 THEN Complement(a0) ELSE a0
         IN IF ~ArcInRange(arcs, a) THEN Panic
            ELSE PackLoop(arcs, tr, Tail(ls),
                          AppendArc(result, DecodeArc(tr, arcs[a + 1]), reverse))

(* A plausible slip: an index out of range is skipped instead of faulting *)
RECURSIVE PackLoopSkip(_, _, _, _)
PackLoopSkip(arcs, tr, ls, result) ==
    IF ls = <<>> THEN Ok(result)
    ELSE LET a0 == Head(ls)
             reverse == a0 < 0
             a == IF a0 < 0 THEN Complement(a0) ELSE a0
         IN IF ~ArcInRange(arcs, a) THEN PackLoopSkip(arcs, tr, Tail(ls), result)
            ELSE PackLoopSkip(arcs, tr, Tail(ls),
                              AppendArc(result, DecodeArc(tr, arcs[a + 1]), reverse))

packLinestringSkip(arcs, tr, ls) == PackLoopSkip(arcs, tr, ls, <<>>)

packLinestring(arcs, tr, ls) == PackLoop(arcs, tr, ls, <<>>)

(* packMultiLinestring: every line of a multi-line or polygon in turn *)
packMultiLinestring(arcs, tr, lss) ==
    IF \E i \in 1..Len(lss) : ~packLinestring(arcs, tr, lss[i]).ok THEN Panic
    ELSE Ok([i \in 1..Len(lss) |-> packLinestring(arcs, tr, lss[i]).val])

----------------------------------------------------------------------------
(* Inputs of the arc resolution check *)

ArcSamples ==
    { <<<<0, 0>>>>,
      <<<<1, 2>>, <<3, 1>>>>,
      <<<<2, 2>>, <<2, 2>>>>,
      <<<<0, 1>>, <<2, 0>>, <<1, 3>>>>,
      <<<<4, 0>>, <<0, 4>>, <<4, 0>>>> }

TransformSamples ==
    { NoTransform, MkTransform(1, 1, 0, 0), MkTransform(2, 3, 5, 7) }

(* Arc indexes as they appear in an object, some of them out of range *)
ArcIndexes == (-(MaxArcs + 1))..MaxArcs

InitPack ==
    /\ IdleConvert
    /\ Arcs \in NonEmptySeqsUpTo(ArcSamples, MaxArcs)
    /\ Transform \in TransformSamples
    /\ lsIn \in NonEmptySeqsUpTo(ArcIndexes, MaxLineLen)
    /\ lsOut = NotRun
    /\ Objects = <<>>
    /\ props = <<>>
    /\ fc = NotRun
    /\ IdleRender
    /\ pc = "start"

PackLine ==
    /\ pc = "start"
    /\ lsOut' = packLinestring(Arcs, Transform, lsIn)
    /\ pc' = "packed"
    /\ UNCHANGED <<svgValue, Arcs, Transform, serverVars, Objects, props, lsIn, fc, renderVars>>

NextPack == PackLine

SpecPack == InitPack /\ [][NextPack]_vars

----------------------------------------------------------------------------
(* C2's reference: the sum of the raw deltas 0..k of an arc, per component *)

RECURSIVE DeltaSum(_, _, _)
DeltaSum(arc, k, c) == IF k = 0 THEN 0 ELSE DeltaSum(arc, k - 1, c) + arc[k][c]

ExpectedPoint(tr, arc, k) ==
    IF tr.present
    THEN <<DeltaSum(arc, k, 1) * tr.Scale[1] + tr.Translate[1],
           DeltaSum(arc, k, 2) * tr.Scale[2] + tr.Translate[2]>>
    ELSE arc[k]

ExpectedArc(tr, arc) == [k \in 1..Len(arc) |-> ExpectedPoint(tr, arc, k)]

(* The arc an index refers to, and whether it is read backwards *)
ArcOf(arcs, i) == arcs[(IF i < 0 THEN Complement(i) ELSE i) + 1]

AllInRange(arcs, ls) ==
    \A j \in 1..Len(ls) :
        ArcInRange(arcs, IF ls[j] < 0 THEN Complement(ls[j]) ELSE ls[j])

(* What packLinestring returns for the one-element list <<i>> *)
Resolve(i) == packLinestring(Arcs, Transform, <<i>>).val

(* C1: every negative index of a line resolves to the exact reverse of     *)
(* what its complement resolves to, with and without a Transform, and the  *)
(* line is the concatenation of its indexes' resolutions.                  *)
C1_NegativeIndexIsReverse ==
    (pc = "packed" /\ lsOut.ok) =>
        /\ \A j \in 1..Len(lsIn) :
              lsIn[j] < 0 => Resolve(lsIn[j]) = Reverse(Resolve(Complement(lsIn[j])))
        /\ lsOut.val =
              Concat([j \in 1..Len(lsIn) |->
                         IF lsIn[j] < 0
                         THEN Reverse(Resolve(Complement(lsIn[j])))
                         ELSE Resolve(lsIn[j])])

C1_Witness ==
    /\ pc = "packed" /\ lsOut.ok
    /\ Transform.present /\ Transform.Scale # <<1, 1>>
    /\ \E j \in 1..Len(lsIn) :
          /\ lsIn[j] < 0
          /\ Len(ArcOf(Arcs, lsIn[j])) = 3
          /\ Resolve(lsIn[j]) # Resolve(Complement(lsIn[j]))

(* C2: with a Transform the k-th decoded point of an arc is the running    *)
(* sum of the raw deltas 0..k, scaled and translated per component;        *)
(* without one the decoded points are the stored points.                   *)
C2_DeltaDecoding ==
    (pc = "packed" /\ lsOut.ok) =>
        /\ \A j \in 1..Len(lsIn) :
              lsIn[j] >= 0 =>
                 /\ Len(Resolve(lsIn[j])) = Len(ArcOf(Arcs, lsIn[j]))
                 /\ \A k \in 1..Len(ArcOf(Arcs, lsIn[j])) :
                       Resolve(lsIn[j])[k] = ExpectedPoint(Transform, ArcOf(Arcs, lsIn[j]), k)
        /\ lsOut.val =
              Concat([j \in 1..Len(lsIn) |->
                         IF lsIn[j] < 0
                         THEN Reverse(ExpectedArc(Transform, ArcOf(Arcs, lsIn[j])))
                         ELSE ExpectedArc(Transform, ArcOf(Arcs, lsIn[j]))])
        /\ ~Transform.present =>
              lsOut.val =
                 Concat([j \in 1..Len(lsIn) |->
                            IF lsIn[j] < 0 THEN Reverse(ArcOf(Arcs, lsIn[j]))
                            ELSE ArcOf(Arcs, lsIn[j])])

C2_Witness ==
    /\ pc = "packed" /\ lsOut.ok
    /\ Transform.present /\ Transform.Scale = <<2, 3>>
    /\ lsIn[1] >= 0
    /\ Len(ArcOf(Arcs, lsIn[1])) = 3
    /\ lsOut.val[3] # packPoint(Transform, ArcOf(Arcs, lsIn[1])[3])

----------------------------------------------------------------------------
(* Topology geometries (topojson.Geometry) and decoded features            *)

(* A topojson.Geometry.  Properties is the address of its map in props:    *)
(* the node with address n owns props[n].  Line and area members are arc   *)
(* index lists.                                                            *)
Geom(type, n, id) ==
    [Type |-> type, ID |-> id, Properties |-> n,
     Point |-> <<>>, MultiPoint |-> <<>>, LineString |-> <<>>,
     MultiLineString |-> <<>>, Polygon |-> <<>>, MultiPolygon |-> <<>>,
     Geometries |-> <<>>]

PointG(n, id, pt) == [Geom("Point", n, id) EXCEPT !.Point = pt]
MultiPointG(n, id, pts) == [Geom("MultiPoint", n, id) EXCEPT !.MultiPoint = pts]
LineG(n, id, ls) == [Geom("LineString", n, id) EXCEPT !.LineString = ls]
MultiLineG(n, id, lss) == [Geom("MultiLineString", n, id) EXCEPT !.MultiLineString = lss]
PolygonG(n, id, rings) == [Geom("Polygon", n, id) EXCEPT !.Polygon = rings]
MultiPolygonG(n, id, polys) == [Geom("MultiPolygon", n, id) EXCEPT !.MultiPolygon = polys]
CollectionG(n, id, gs) == [Geom("GeometryCollection", n, id) EXCEPT !.Geometries = gs]

(* A geojson.Geometry: the same shape with coordinates in place of indexes *)
GeoJSONGeometry(type) ==
    [Type |-> type,
     Point |-> <<>>, MultiPoint |-> <<>>, LineString |-> <<>>,
     MultiLineString |-> <<>>, Polygon |-> <<>>, MultiPolygon |-> <<>>,
     Geometries |-> <<>>]

(* Whether toGeometry faults on g: some line it packs indexes past Arcs *)
RECURSIVE GeometryPanics(_, _, _)
GeometryPanics(arcs, tr, g) ==
    CASE g.Type = "LineString" -> ~packLinestring(arcs, tr, g.LineString).ok
      [] g.Type = "MultiLineString" -> ~packMultiLinestring(arcs, tr, g.MultiLineString).ok
      [] g.Type = "Polygon" -> ~packMultiLinestring(arcs, tr, g.Polygon).ok
      [] g.Type = "MultiPolygon" ->
            \E i \in 1..Len(g.MultiPolygon) :
                ~packMultiLinestring(arcs, tr, g.MultiPolygon[i]).ok
      [] g.Type = "GeometryCollection" ->
            \E i \in 1..Len(g.Geometries) : GeometryPanics(arcs, tr, g.Geometries[i])
      [] OTHER -> FALSE

(* toGeometry, for a geometry it does not fault on *)
RECURSIVE toGeometry(_, _, _)
toGeometry(arcs, tr, g) ==
    CASE g.Type = "Point" ->
            [GeoJSONGeometry("Point") EXCEPT !.Point = packPoint(tr, g.Point)]
      [] g.Type = "MultiPoint" ->
            [GeoJSONGeometry("MultiPoint") EXCEPT !.MultiPoint = packPoints(tr, g.MultiPoint)]
      [] g.Type = "LineString" ->
            [GeoJSONGeometry("LineString") EXCEPT
                !.LineString = packLinestring(arcs, tr, g.LineString).val]
      [] g.Type = "MultiLineString" ->
            [GeoJSONGeometry("MultiLineString") EXCEPT
                !.MultiLineString = packMultiLinestring(arcs, tr, g.MultiLineString).val]
      [] g.Type = "Polygon" ->
            [GeoJSONGeometry("Polygon") EXCEPT
                !.Polygon = packMultiLinestring(arcs, tr, g.Polygon).val]
      [] g.Type = "MultiPolygon" ->
            [GeoJSONGeometry("MultiPolygon") EXCEPT
                !.MultiPolygon = [i \in 1..Len(g.MultiPolygon) |->
                                     packMultiLinestring(arcs, tr, g.MultiPolygon[i]).val]]
      [] g.Type = "GeometryCollection" ->
            [GeoJSONGeometry("GeometryCollection") EXCEPT
                !.Geometries = [i \in 1..Len(g.Geometries) |->
                                   toGeometry(arcs, tr, g.Geometries[i])]]

(* geojson.NewFeature, then feat.ID and feat.Properties taken from the     *)
(* geometry: Properties is the geometry's own map, not a copy.             *)
FeatureOf(arcs, tr, g) ==
    [ID |-> g.ID, Properties |-> g.Properties, Geometry |-> toGeometry(arcs, tr, g)]

(* A plausible slip: a collection is never expanded *)
ObjectFeaturesGrouped(arcs, tr, obj) == <<FeatureOf(arcs, tr, obj)>>

(* The body of ToGeoJSON's loop: the features one object contributes *)
ObjectFeatures(arcs, tr, obj) ==
    IF obj.Type = "GeometryCollection"
    THEN [i \in 1..Len(obj.Geometries) |-> FeatureOf(arcs, tr, obj.Geometries[i])]
    ELSE <<FeatureOf(arcs, tr, obj)>>

(* ToGeoJSON with the objects visited in the given order (Go ranges over   *)
(* the Objects map in an order of its choosing).                           *)
ToGeoJSON(arcs, tr, objs, order) ==
    IF \E i \in 1..Len(objs) : GeometryPanics(arcs, tr, objs[i]) THEN Panic
    ELSE Ok(Concat([i \in 1..Len(objs) |-> ObjectFeatures(arcs, tr, objs[order[i]])]))

Orders(n) == {o \in [1..n -> 1..n] : \A i, j \in 1..n : o[i] = o[j] => i = j}

----------------------------------------------------------------------------
(* Inputs of the decoding check *)

(* Arcs 0 and 1 are closed rings of 5 and 4 points; arc 2 is a ring that   *)
(* collapsed to one position, stored as the 2 points quantizeLine keeps    *)
GeoArcs ==
    << <<<<0, 0>>, <<2, 0>>, <<2, 2>>, <<0, 2>>, <<0, 0>>>>,
       <<<<3, 0>>, <<4, 0>>, <<4, 1>>, <<3, 0>>>>,
       <<<<5, 5>>, <<5, 5>>>> >>

GeoDeltaArcs ==
    << <<<<0, 0>>, <<2, 0>>, <<0, 2>>, <<-2, 0>>, <<0, -2>>>>,
       <<<<3, 0>>, <<1, 0>>, <<0, 1>>, <<-1, -1>>>>,
       <<<<5, 5>>, <<0, 0>>>> >>

IdToken == <<"g1", "g2", "g3", "g4", "g5", "g6", "g7", "g8", "g9">>

(* Leaf geometries at address n; index 3 and -5 are out of range *)
LeafAt(n) ==
    LET id == <<IdToken[n]>> IN
    { PointG(n, id, <<1, 2>>),
      MultiPointG(n, id, <<<<1, 2>>, <<2, 1>>>>),
      LineG(n, id, <<2>>),
      LineG(n, id, <<-3, 0>>),
      LineG(n, id, <<3>>),
      PolygonG(n, id, <<<<0>>>>),
      PolygonG(n, id, <<<<-2>>>>),
      PolygonG(n, id, <<<<2>>>>),
      PolygonG(n, id, <<<<0>>, <<-5>>>>),
      MultiLineG(n, id, <<<<2>>, <<-3>>>>),
      MultiPolygonG(n, id, <<<<<<0>>>>, <<<<1>>>>>>) }

(* Children of a collection: leaves, or a collection nested one deeper *)
ChildAt(n) ==
    LeafAt(n) \cup {CollectionG(n, <<IdToken[n]>>, gs) : gs \in SeqsUpTo(LeafAt(n + 1), 1)}

ChildrenAt(n) ==
    UNION {{[i \in 1..k |-> c[i]] : c \in [1..k -> ChildAt(n)]} : k \in 0..MaxChildren}

TopAt(n) == LeafAt(n) \cup {CollectionG(n, <<IdToken[n]>>, gs) : gs \in ChildrenAt(n + 1)}

InitGeo ==
    /\ IdleConvert
    /\ \E withDeltas \in BOOLEAN :
          /\ Arcs = IF withDeltas THEN GeoDeltaArcs ELSE GeoArcs
          /\ Transform = IF withDeltas THEN MkTransform(1, 1, 0, 0) ELSE NoTransform
    /\ Objects \in {<<t>> : t \in TopAt(1)}
                   \cup {<<l, t>> : l \in {PointG(5, <<"g5">>, <<1, 2>>), LineG(5, <<"g5">>, <<3>>)},
                                    t \in {PolygonG(1, <<"g1">>, <<<<0>>>>),
                                           CollectionG(1, <<"g1">>, <<LineG(2, <<"g2">>, <<2>>)>>)}}
    /\ props = [n \in 1..Len(IdToken) |-> [name |-> <<IdToken[n]>>]]
    /\ lsIn = <<>>
    /\ lsOut = NotRun
    /\ fc = NotRun
    /\ IdleRender
    /\ pc = "start"

Decode ==
    /\ pc = "start"
    /\ \E order \in Orders(Len(Objects)) :
          fc' = ToGeoJSON(Arcs, Transform, Objects, order)
    /\ pc' = "decoded"
    /\ UNCHANGED <<svgValue, Arcs, Transform, serverVars, Objects, props, lsIn, lsOut, renderVars>>

NextGeo == Decode

SpecGeo == InitGeo /\ [][NextGeo]_vars

----------------------------------------------------------------------------
(* Claims about ToGeoJSON *)

Features == fc.val

Decoded == pc = "decoded" /\ fc.ok

(* The rings of a decoded geometry *)
RingsOf(g) ==
    CASE g.Type = "Polygon" -> {g.Polygon[i] : i \in 1..Len(g.Polygon)}
      [] g.Type = "MultiPolygon" ->
            UNION {{g.MultiPolygon[i][j] : j \in 1..Len(g.MultiPolygon[i])} :
                      i \in 1..Len(g.MultiPolygon)}
      [] OTHER -> {}

(* C3: every decoded polygon ring has at least 4 points and is closed, a   *)
(* shorter ring being padded with its first point.                         *)
C3_RingsPaddedAndClosed ==
    Decoded =>
        \A i \in 1..Len(Features) :
            \A r \in RingsOf(Features[i].Geometry) :
                Len(r) >= 4 /\ r[1] = r[Len(r)]

(* The case C3 is about: a ring whose arcs hold fewer than 4 points *)
C3_Witness ==
    /\ Decoded
    /\ \E i \in 1..Len(Features) :
          \E r \in RingsOf(Features[i].Geometry) : Len(r) = 2 /\ r[1] = r[2]

RECURSIVE SumOver(_, _)
SumOver(f, n) == IF n = 0 THEN 0 ELSE SumOver(f, n - 1) + f[n]

TopCollections == {i \in 1..Len(Objects) : Objects[i].Type = "GeometryCollection"}

(* A top-level GeometryCollection with N children yields N features, each  *)
(* with its child's own ID and Properties and none of the parent's; any    *)
(* other object yields one feature.                                        *)
ExpandsTopLevel ==
    /\ Len(Features) =
          SumOver([i \in 1..Len(Objects) |->
                      IF i \in TopCollections THEN Len(Objects[i].Geometries) ELSE 1],
                  Len(Objects))
    /\ \A i \in TopCollections :
          /\ \A k \in 1..Len(Objects[i].Geometries) :
                \E j \in 1..Len(Features) :
                    /\ Features[j].ID = Objects[i].Geometries[k].ID
                    /\ Features[j].Properties = Objects[i].Geometries[k].Properties
                    /\ Features[j].Geometry.Type = Objects[i].Geometries[k].Type
          /\ \A j \in 1..Len(Features) :
                /\ Features[j].ID # Objects[i].ID
                /\ Features[j].Properties # Objects[i].Properties
    /\ \A i \in 1..Len(Objects) :
          i \notin TopCollections =>
             \E j \in 1..Len(Features) :
                 /\ Features[j].ID = Objects[i].ID
                 /\ Features[j].Properties = Objects[i].Properties
                 /\ Features[j].Geometry.Type = Objects[i].Type

(* C5 as stated: collections are expanded recursively, so that at any      *)
(* nesting depth no decoded feature has a GeometryCollection as geometry.  *)
C5_RecursiveFlattening ==
    Decoded =>
        /\ ExpandsTopLevel
        /\ \A j \in 1..Len(Features) : Features[j].Geometry.Type # "GeometryCollection"

(* C5, amended: the expansion is one level deep.  A child that is itself a *)
(* GeometryCollection becomes one feature whose geometry is a              *)
(* GeometryCollection holding its decoded children; no other feature has   *)
(* a GeometryCollection as geometry.                                       *)
C5_TopLevelCollectionsExpandOnce ==
    Decoded =>
        /\ ExpandsTopLevel
        /\ \A j \in 1..Len(Features) :
              Features[j].Geometry.Type = "GeometryCollection" =>
                 \E i \in TopCollections :
                     \E k \in 1..Len(Objects[i].Geometries) :
                         /\ Objects[i].Geometries[k].Type = "GeometryCollection"
                         /\ Features[j].ID = Objects[i].Geometries[k].ID
                         /\ Len(Features[j].Geometry.Geometries)
                               = Len(Objects[i].Geometries[k].Geometries)
                         /\ \A m \in 1..Len(Features[j].Geometry.Geometries) :
                               Features[j].Geometry.Geometries[m].Type
                                  = Objects[i].Geometries[k].Geometries[m].Type

C5_Witness ==
    /\ Decoded
    /\ Objects[1].Type = "GeometryCollection"
    /\ Len(Objects[1].Geometries) = 2
    /\ Objects[1].Geometries[2].Type = "GeometryCollection"
    /\ Len(Objects[1].Geometries[2].Geometries) = 1
    /\ Len(Features) = 2
    /\ Features[2].Geometry.Type = "GeometryCollection"

(* The arc indexes toGeometry resolves for a geometry *)
RECURSIVE ArcIndexesOf(_)
ArcIndexesOf(g) ==
    LET Elems(ls) == {ls[i] : i \in 1..Len(ls)}
        ElemsOfLines(lss) == UNION {Elems(lss[i]) : i \in 1..Len(lss)}
    IN CASE g.Type = "LineString" -> Elems(g.LineString)
         [] g.Type = "MultiLineString" -> ElemsOfLines(g.MultiLineString)
         [] g.Type = "Polygon" -> ElemsOfLines(g.Polygon)
         [] g.Type = "MultiPolygon" ->
               UNION {ElemsOfLines(g.MultiPolygon[i]) : i \in 1..Len(g.MultiPolygon)}
         [] g.Type = "GeometryCollection" ->
               UNION {ArcIndexesOf(g.Geometries[i]) : i \in 1..Len(g.Geometries)}
         [] OTHER -> {}

OutOfRange(i) == (IF i < 0 THEN -i - 1 ELSE i) >= Len(Arcs)

HasBadIndex == \E k \in 1..Len(Objects) : \E i \in ArcIndexesOf(Objects[k]) : OutOfRange(i)

(* C6: decoding a line or ring with an arc index out of range (after       *)
(* complementing) faults; no FeatureCollection is returned.                *)
C6_OutOfRangeFaults ==
    (pc = "decoded" /\ HasBadIndex) => ~fc.ok

C6_Witness ==
    /\ pc = "decoded" /\ ~fc.ok
    /\ Objects[1].Type = "GeometryCollection"
    /\ Len(Objects[1].Geometries) = 2
    /\ Objects[1].Geometries[1].Type = "Point"
    /\ Objects[1].Geometries[2].Type = "Polygon"
    /\ Objects[1].Geometries[2].Polygon = <<<<0>>, <<-5>>>>

----------------------------------------------------------------------------
(* float64 values.  A float64 is held by its exact value.  The pair        *)
(* <<n, d>> is the value n/d for a power of two d > 0 (in lowest terms,     *)
(* <<0, 1>> is +0), the negative zero <<0, -1>>, and for d = 0 what a       *)
(* division by zero produces: <<1, 0>> is +Inf, <<-1, 0>> is -Inf and       *)
(* <<0, 0>> is NaN.  A finite value that no such pair of small integers     *)
(* holds is <<s, m, e>>: the value s * m * 2^e, with the sign s, 1 or -1,   *)
(* and the odd natural number m given by its digits.  Every operation       *)
(* rounds its exact result to the nearest value of 53 significant bits,     *)
(* ties to even, as the float64 operations of Go do; a multiplication and   *)
(* the addition that follows it are not fused.                              *)

Sgn(n) == IF n > 0 THEN 1 ELSE IF n < 0 THEN -1 ELSE 0

Abs(n) == IF n < 0 THEN -n ELSE n

Pow2(i) == 2^i

(* how often 2 divides n, and the position of the highest bit of n, for an *)
(* n > 0: both are found by halving the width w of what is looked at       *)
RECURSIVE TwosBelow(_, _)
TwosBelow(n, w) ==
    IF w = 0 THEN 0
    ELSE IF n % Pow2(w) = 0 THEN w + TwosBelow(n \div Pow2(w), w \div 2)
    ELSE TwosBelow(n, w \div 2)

TwosIn(n) == TwosBelow(n, 16)

RECURSIVE LogBelow(_, _)
LogBelow(n, w) ==
    IF w = 0 THEN 0
    ELSE IF n >= Pow2(w) THEN w + LogBelow(n \div Pow2(w), w \div 2)
    ELSE LogBelow(n, w \div 2)

Ilog2(n) == LogBelow(n, 16)

(* A natural number of any size is the sequence of its digits to the base  *)
(* Limb, the lowest digit first and the highest not 0: <<>> is 0.           *)
Limb == 2^15

LimbBits == Ilog2(Limb)

RECURSIVE BigOf(_)
BigOf(n) == IF n = 0 THEN <<>> ELSE <<n % Limb>> \o BigOf(n \div Limb)

RECURSIVE IntOf(_)
IntOf(a) == IF a = <<>> THEN 0 ELSE Head(a) + Limb * IntOf(Tail(a))

RECURSIVE Trim(_)
Trim(a) ==
    IF a = <<>> \/ a[Len(a)] # 0 THEN a ELSE Trim(SubSeq(a, 1, Len(a) - 1))

Digit(a, i) == IF i <= Len(a) THEN a[i] ELSE 0

(* a + b *)
RECURSIVE AddFrom(_, _, _, _)
AddFrom(a, b, i, carry) ==
    IF i > Len(a) /\ i > Len(b) THEN (IF carry = 0 THEN <<>> ELSE <<carry>>)
    ELSE <<(Digit(a, i) + Digit(b, i) + carry) % Limb>>
         \o AddFrom(a, b, i + 1, (Digit(a, i) + Digit(b, i) + carry) \div Limb)

BigAdd(a, b) == AddFrom(a, b, 1, 0)

(* a - b, for a >= b *)
RECURSIVE SubFrom(_, _, _, _)
SubFrom(a, b, i, borrow) ==
    IF i > Len(a) THEN <<>>
    ELSE <<(a[i] - Digit(b, i) - borrow) % Limb>>
         \o SubFrom(a, b, i + 1, IF a[i] - Digit(b, i) - borrow < 0 THEN 1 ELSE 0)

BigSub(a, b) == Trim(SubFrom(a, b, 1, 0))

(* -1, 0 or 1 as a is less than, equal to or greater than b *)
RECURSIVE CmpFrom(_, _, _)
CmpFrom(a, b, i) ==
    IF i = 0 THEN 0
    ELSE IF a[i] # b[i] THEN (IF a[i] < b[i] THEN -1 ELSE 1)
    ELSE CmpFrom(a, b, i - 1)

BigCmp(a, b) ==
    IF Len(a) # Len(b) THEN (IF Len(a) < Len(b) THEN -1 ELSE 1)
    ELSE CmpFrom(a, b, Len(a))

(* a * k, for a digit k *)
RECURSIVE TimesFrom(_, _, _, _)
TimesFrom(a, k, i, carry) ==
    IF i > Len(a) THEN (IF carry = 0 THEN <<>> ELSE <<carry>>)
    ELSE <<(a[i] * k + carry) % Limb>>
         \o TimesFrom(a, k, i + 1, (a[i] * k + carry) \div Limb)

BigTimes(a, k) == IF k = 0 THEN <<>> ELSE TimesFrom(a, k, 1, 0)

(* a * Limb^j *)
ShiftDigits(a, j) == IF a = <<>> THEN <<>> ELSE [i \in 1..j |-> 0] \o a

(* a * b *)
RECURSIVE BigMul(_, _)
BigMul(a, b) ==
    IF b = <<>> THEN <<>>
    ELSE BigAdd(BigTimes(a, Head(b)), ShiftDigits(BigMul(a, Tail(b)), 1))

(* a * 2^n *)
BigShl(a, n) == ShiftDigits(BigTimes(a, Pow2(n % LimbBits)), n \div LimbBits)

(* the digits i, ..., 1 of the quotient of a by the digit k, r being what  *)
(* the digits above i left over                                             *)
RECURSIVE ShortDivFrom(_, _, _, _)
ShortDivFrom(a, k, i, r) ==
    IF i = 0 THEN <<>>
    ELSE ShortDivFrom(a, k, i - 1, (r * Limb + a[i]) % k)
         \o <<(r * Limb + a[i]) \div k>>

DropDigits(a, j) == IF j >= Len(a) THEN <<>> ELSE SubSeq(a, j + 1, Len(a))

ShortDiv(a, k) == Trim(ShortDivFrom(a, k, Len(a), 0))

(* a divided by 2^n, without the remainder *)
BigShr(a, n) == ShortDiv(DropDigits(a, n \div LimbBits), Pow2(n % LimbBits))

(* the number of bits of a, the bit of a at 2^n, and how often 2 divides   *)
(* a > 0                                                                    *)
BitLen(a) ==
    IF a = <<>> THEN 0 ELSE LimbBits * (Len(a) - 1) + Ilog2(a[Len(a)]) + 1

BitAt(a, n) == (Digit(a, n \div LimbBits + 1) \div Pow2(n % LimbBits)) % 2

RECURSIVE LowZeroDigits(_, _)
LowZeroDigits(a, i) == IF a[i] # 0 THEN i - 1 ELSE LowZeroDigits(a, i + 1)

TwosFrom(a, z) == LimbBits * z + TwosIn(a[z + 1])

BigTwosIn(a) == TwosFrom(a, LowZeroDigits(a, 1))

(* Long division of n by d, the highest digit of d being at least Limb/2:  *)
(* the digit of the quotient is estimated from the two highest digits of   *)
(* what is left and the highest digit of d, which is at most 2 too much.    *)
Estimate(d, r) ==
    IF (Digit(r, Len(d) + 1) * Limb + Digit(r, Len(d))) \div d[Len(d)] >= Limb
    THEN Limb - 1
    ELSE (Digit(r, Len(d) + 1) * Limb + Digit(r, Len(d))) \div d[Len(d)]

RECURSIVE Fit(_, _, _)
Fit(d, r, q) == IF BigCmp(BigTimes(d, q), r) > 0 THEN Fit(d, r, q - 1) ELSE q

RECURSIVE DivLoop(_, _, _, _, _)
DivStep(n, d, i, r, qs, q) ==
    IF q = 0 THEN DivLoop(n, d, i - 1, r, <<0>> \o qs)
    ELSE DivLoop(n, d, i - 1, BigSub(r, BigTimes(d, q)), <<q>> \o qs)

DivDigit(n, d, i, r, qs) == DivStep(n, d, i, r, qs, Fit(d, r, Estimate(d, r)))

DivLoop(n, d, i, r, qs) ==
    IF i = 0 THEN <<Trim(qs), r>>
    ELSE DivDigit(n, d, i, Trim(<<n[i]>> \o r), qs)

DivShifted(n, d, s) == DivLoop(BigShl(n, s), BigShl(d, s), Len(BigShl(n, s)), <<>>, <<>>)

(* what the division of a by the digit k leaves over *)
RECURSIVE ShortRemFrom(_, _, _, _)
ShortRemFrom(a, k, i, r) ==
    IF i = 0 THEN r ELSE ShortRemFrom(a, k, i - 1, (r * Limb + a[i]) % k)

(* the quotient of n by d > 0 and what is left over: a d of one digit is   *)
(* divided by digit by digit                                                *)
BigDiv(n, d) ==
    IF Len(d) = 1 THEN <<ShortDiv(n, d[1]), BigOf(ShortRemFrom(n, d[1], Len(n), 0))>>
    ELSE DivShifted(n, d, LimbBits - 1 - Ilog2(d[Len(d)]))

F(i) == <<i, 1>>

NaN == <<0, 0>>

PosInf == <<1, 0>>

NegInf == <<-1, 0>>

NegZero == <<0, -1>>

IsNaN(x) == x = NaN

IsInf(x) == x = PosInf \/ x = NegInf

IsFinite(x) == ~IsNaN(x) /\ ~IsInf(x)

(* +0 or -0 *)
IsZero(x) == x = F(0) \/ x = NegZero

(* math.Signbit, for a value that is not NaN *)
Signbit(x) == x[1] < 0 \/ x = NegZero

(* the zero and the infinity of a sign *)
ZeroOf(negative) == IF negative THEN NegZero ELSE F(0)

InfOf(negative) == IF negative THEN NegInf ELSE PosInf

(* a finite value that is not 0 is Sign * Mantissa * 2^Exponent *)
Sign(x) == Sgn(x[1])

Mantissa(x) == IF Len(x) = 2 THEN BigOf(Abs(x[1])) ELSE x[2]

Exponent(x) == IF Len(x) = 2 THEN -Ilog2(x[2]) ELSE x[3]

(* the float64 s * m * 2^e, for an odd m of at most 53 bits: a pair when   *)
(* its integers are small                                                   *)
Packed(s, m, e) ==
    IF e <= 0 /\ e >= -30 /\ BitLen(m) <= 31 THEN <<s * IntOf(m), Pow2(-e)>>
    ELSE IF e > 0 /\ BitLen(m) + e <= 31 THEN <<s * IntOf(m) * Pow2(e), 1>>
    ELSE <<s, m, e>>

PackedOdd(s, m, e, twos) == Packed(s, BigShr(m, twos), e + twos)

(* the float64 s * m * 2^e, for an m > 0 with at most 53 bits between its  *)
(* highest and its lowest 1                                                 *)
Exact(s, m, e) == PackedOdd(s, m, e, BigTwosIn(m))

(* a result beyond the largest float64 is an infinity, a result that       *)
(* rounds to nothing a zero                                                 *)
Finite(s, m, e) ==
    IF m = <<>> THEN ZeroOf(s < 0)
    ELSE IF BitLen(m) + e > 1024 THEN InfOf(s < 0)
    ELSE Exact(s, m, e)

(* m without its lowest drop bits, rounded to the nearest, a tie to even *)
RoundedUp(m, drop) ==
    BitAt(m, drop - 1) = 1 /\ (BigTwosIn(m) < drop - 1 \/ BitAt(m, drop) = 1)

Nearest(m, drop) ==
    IF RoundedUp(m, drop) THEN BigAdd(BigShr(m, drop), <<1>>) ELSE BigShr(m, drop)

RoundAt(s, m, e, drop) ==
    IF drop <= 0 THEN Finite(s, m, e) ELSE Finite(s, Nearest(m, drop), e + drop)

(* the float64 nearest to s * m * 2^e, m > 0: 53 bits are kept, fewer      *)
(* where the result is subnormal                                            *)
Round(s, m, e) ==
    RoundAt(s, m, e, IF BitLen(m) - 53 > -1074 - e THEN BitLen(m) - 53 ELSE -1074 - e)

FNeg(x) ==
    IF Len(x) = 3 THEN <<-x[1], x[2], x[3]>>
    ELSE IF IsZero(x) THEN <<0, -x[2]>>
    ELSE <<-x[1], x[2]>>

(* the sum of sx * a * 2^e and sy * b * 2^e: values that cancel give +0 *)
SumOpposite(sx, a, sy, b, e, cmp) ==
    IF cmp = 0 THEN F(0)
    ELSE IF cmp > 0 THEN Round(sx, BigSub(a, b), e)
    ELSE Round(sy, BigSub(b, a), e)

SumAligned(sx, a, sy, b, e) ==
    IF sx = sy THEN Round(sx, BigAdd(a, b), e)
    ELSE SumOpposite(sx, a, sy, b, e, BigCmp(a, b))

SumAt(x, y, e) ==
    SumAligned(Sign(x), BigShl(Mantissa(x), Exponent(x) - e),
               Sign(y), BigShl(Mantissa(y), Exponent(y) - e), e)

(* x + y: Inf + -Inf is NaN; a sum of zeros is -0 only when both are, and  *)
(* a sum of non-zero values that cancel is +0                               *)
FAdd(x, y) ==
    CASE IsNaN(x) \/ IsNaN(y) -> NaN
      [] IsInf(x) /\ IsInf(y) -> IF x = y THEN x ELSE NaN
      [] IsInf(x) -> x
      [] IsInf(y) -> y
      [] IsZero(x) /\ IsZero(y) -> ZeroOf(Signbit(x) /\ Signbit(y))
      [] IsZero(x) -> y
      [] IsZero(y) -> x
      [] OTHER -> SumAt(x, y, IF Exponent(x) < Exponent(y) THEN Exponent(x)
                              ELSE Exponent(y))

FSub(x, y) == FAdd(x, FNeg(y))

(* x * y: 0 * Inf is NaN; the sign of a zero or an infinity is the product *)
(* of the signs                                                             *)
FMul(x, y) ==
    CASE IsNaN(x) \/ IsNaN(y) -> NaN
      [] IsInf(x) \/ IsInf(y) ->
            IF IsZero(x) \/ IsZero(y) THEN NaN ELSE InfOf(Signbit(x) # Signbit(y))
      [] IsZero(x) \/ IsZero(y) -> ZeroOf(Signbit(x) # Signbit(y))
      [] OTHER -> Round(Sign(x) * Sign(y), BigMul(Mantissa(x), Mantissa(y)),
                        Exponent(x) + Exponent(y))

(* the quotient q, with one bit below it that is 1 when the division left  *)
(* a remainder                                                              *)
WithRemainder(q) ==
    IF q[2] = <<>> THEN BigTimes(q[1], 2) ELSE BigAdd(BigTimes(q[1], 2), <<1>>)

(* the mantissa of x is shifted by up bits, which gives the quotient at    *)
(* least 55 bits                                                            *)
QuotientAt(x, y, up) ==
    Round(Sign(x) * Sign(y),
          WithRemainder(BigDiv(BigShl(Mantissa(x), up), Mantissa(y))),
          Exponent(x) - Exponent(y) - up - 1)

Quotient(x, y) ==
    QuotientAt(x, y, IF 55 + BitLen(Mantissa(y)) > BitLen(Mantissa(x))
                     THEN 55 + BitLen(Mantissa(y)) - BitLen(Mantissa(x)) ELSE 0)

(* x / y: 0/0 and Inf/Inf are NaN, a non-zero x over a zero is an infinity *)
(* and a finite x over an infinity a zero, each with the sign of the        *)
(* quotient                                                                 *)
FDiv(x, y) ==
    CASE IsNaN(x) \/ IsNaN(y) -> NaN
      [] IsInf(y) -> IF IsInf(x) THEN NaN ELSE ZeroOf(Signbit(x) # Signbit(y))
      [] IsZero(y) -> IF IsZero(x) THEN NaN ELSE InfOf(Signbit(x) # Signbit(y))
      [] IsInf(x) -> InfOf(Signbit(x) # Signbit(y))
      [] IsZero(x) -> ZeroOf(Signbit(x) # Signbit(y))
      [] OTHER -> Quotient(x, y)

(* a constant of the source written as the decimal fraction n/d: the       *)
(* float64 nearest to it                                                    *)
Float(n, d) == FDiv(F(n), F(d))

(* 0.5, which rounds a height and halves the key *)
Half == Float(1, 2)

(* |x| < |y| for finite values that are not 0 *)
SmallerAt(x, y, e) ==
    BigCmp(BigShl(Mantissa(x), Exponent(x) - e),
           BigShl(Mantissa(y), Exponent(y) - e)) < 0

Smaller(x, y) ==
    IF BitLen(Mantissa(x)) + Exponent(x) # BitLen(Mantissa(y)) + Exponent(y)
    THEN BitLen(Mantissa(x)) + Exponent(x) < BitLen(Mantissa(y)) + Exponent(y)
    ELSE SmallerAt(x, y, IF Exponent(x) < Exponent(y) THEN Exponent(x)
                         ELSE Exponent(y))

(* x < y for values that are not NaN: -0 equals +0 *)
Less(x, y) ==
    CASE IsInf(x) \/ IsInf(y) ->
            (IF IsInf(x) THEN x[1] ELSE 0) < (IF IsInf(y) THEN y[1] ELSE 0)
      [] IsZero(x) /\ IsZero(y) -> FALSE
      [] IsZero(x) -> Sign(y) > 0
      [] IsZero(y) -> Sign(x) < 0
      [] Sign(x) # Sign(y) -> Sign(x) < Sign(y)
      [] Sign(x) > 0 -> Smaller(x, y)
      [] OTHER -> Smaller(y, x)

(* x < y and x <= y: false when either side is NaN *)
FLess(x, y) == ~IsNaN(x) /\ ~IsNaN(y) /\ Less(x, y)

FLeq(x, y) == ~IsNaN(x) /\ ~IsNaN(y) /\ ~Less(y, x)

(* math.Max and math.Min: the infinity of their direction wins, then NaN;  *)
(* of two zeros Max returns -0 only when both are -0, Min when either is    *)
FMax(x, y) ==
    CASE x = PosInf \/ y = PosInf -> PosInf
      [] IsNaN(x) \/ IsNaN(y) -> NaN
      [] IsZero(x) /\ IsZero(y) -> ZeroOf(Signbit(x) /\ Signbit(y))
      [] OTHER -> IF FLess(x, y) THEN y ELSE x

FMin(x, y) ==
    CASE x = NegInf \/ y = NegInf -> NegInf
      [] IsNaN(x) \/ IsNaN(y) -> NaN
      [] IsZero(x) /\ IsZero(y) -> ZeroOf(Signbit(x) \/ Signbit(y))
      [] OTHER -> IF FLess(y, x) THEN y ELSE x

(* the integer below s * m * 2^e, which is not an integer: q is what is    *)
(* left of m above its -e lowest bits                                       *)
FloorOf(s, q) ==
    IF s < 0 THEN Exact(-1, BigAdd(q, <<1>>), 0)
    ELSE IF q = <<>> THEN F(0)
    ELSE Exact(1, q, 0)

(* math.Floor: NaN, the infinities and the zeros are returned as they are *)
FFloor(x) ==
    IF ~IsFinite(x) \/ IsZero(x) THEN x
    ELSE IF Len(x) = 2 THEN F(x[1] \div x[2])
    ELSE IF x[3] >= 0 THEN x
    ELSE FloorOf(x[1], BigShr(x[2], -x[3]))

(* math.Abs *)
FAbs(x) ==
    IF IsZero(x) THEN F(0)
    ELSE IF Signbit(x) THEN FNeg(x) ELSE x

----------------------------------------------------------------------------
(* The renderer: renderer/svg.go                                           *)

MaxRenders == 2

RegionClassName == "mapRegion"

MissingDataText == "data unavailable"

MinOf(S) == CHOOSE x \in S : \A y \in S : x <= y

MaxOf(S) == CHOOSE x \in S : \A y \in S : x >= y

(* fmt's %g for the values the model uses *)
FormatG(v) == <<"0", "1", "2", "3", "4", "5", "6", "7", "8", "9">>[v + 1]

(* A Go map[string]interface{} is a function from its keys; reading a nil  *)
(* map (address 0) reads an empty one, writing to it panics.               *)
EmptyMap == [k \in {} |-> <<>>]

MapAt(heap, a) == IF a = 0 THEN EmptyMap ELSE heap[a]

MapPut(m, k, v) == [x \in DOMAIN m \cup {k} |-> IF x = k THEN v ELSE m[x]]

(* What a loop over the features leaves behind: whether it ran through,    *)
(* and the heap of Properties maps as far as it got.                       *)
Done(heap) == [ok |-> TRUE, heap |-> heap]

Faulted(heap) == [ok |-> FALSE, heap |-> heap]

(* request.Filename + "-" *)
RenderIdPrefix(req) == req.Filename \o <<"-">>

(* setFeatureIDs: the id property when it is a non-empty string, else the  *)
(* feature's own non-empty ID, each behind idPrefix; else the ID as it is. *)
setFeatureIDs(features, heap, idProperty, idPrefix) ==
    [i \in 1..Len(features) |->
        LET m == MapAt(heap, features[i].Properties)
        IN IF idProperty \in DOMAIN m /\ Len(m[idProperty]) > 0
           THEN [features[i] EXCEPT !.ID = idPrefix \o m[idProperty]]
           ELSE IF Len(features[i].ID) > 0
                THEN [features[i] EXCEPT !.ID = idPrefix \o features[i].ID]
                ELSE features[i]]

(* appendProperty on the map at address a: the new value goes in front of  *)
(* an existing one.                                                        *)
appendProperty(heap, a, propertyName, value) ==
    IF a = 0 THEN Faulted(heap)
    ELSE LET m == heap[a]
             s == IF propertyName \in DOMAIN m
                  THEN value \o <<" ">> \o m[propertyName]
                  ELSE value
         IN Done([heap EXCEPT ![a] = MapPut(m, propertyName, s)])

RECURSIVE ClassLoop(_, _, _, _)
ClassLoop(features, heap, i, className) ==
    IF i > Len(features) THEN Done(heap)
    ELSE LET r == appendProperty(heap, features[i].Properties, "class", <<className>>)
         IN IF r.ok THEN ClassLoop(features, r.heap, i + 1, className) ELSE r

setClassProperty(features, heap, className) == ClassLoop(features, heap, 1, className)

(* sortBreaks: sort.Slice is not stable, so any sorted arrangement of the  *)
(* breaks may come back.                                                   *)
sortBreaks(breaks, asc) ==
    {[i \in 1..Len(breaks) |-> breaks[o[i]]] :
        o \in {p \in Orders(Len(breaks)) :
                 \A i \in 1..(Len(breaks) - 1) :
                     IF asc THEN breaks[p[i]].LowerBound <= breaks[p[i + 1]].LowerBound
                            ELSE breaks[p[i]].LowerBound >= breaks[p[i + 1]].LowerBound}}

(* A plausible slip: a value equal to a lower bound falls to the next break *)
getColourStrict(value, breaks) ==
    LET hits == {i \in 1..Len(breaks) : value > breaks[i].LowerBound}
    IN IF hits # {} THEN Ok(breaks[MinOf(hits)].Colour)
       ELSE IF Len(breaks) = 0 THEN Panic
       ELSE Ok(breaks[Len(breaks)].Colour)

(* getColour: the first break, in the order given, whose LowerBound the    *)
(* value reaches; the last break when there is none.  breaks[len-1] of no  *)
(* breaks panics.                                                          *)
getColour(value, breaks) ==
    LET hits == {i \in 1..Len(breaks) : value >= breaks[i].LowerBound}
    IN IF hits # {} THEN Ok(breaks[MinOf(hits)].Colour)
       ELSE IF Len(breaks) = 0 THEN Panic
       ELSE Ok(breaks[Len(breaks)].Colour)

(* A plausible slip: the rows are keyed by their bare ID *)
mapDataToColourNoPrefix(data, breaks, idPrefix) ==
    Ok([id \in {data[i].ID : i \in 1..Len(data)} |->
          LET last == MaxOf({i \in 1..Len(data) : data[i].ID = id})
          IN [value |-> data[last].Value,
              colour |-> getColour(data[last].Value, breaks).val]])

(* mapDataToColour, given the breaks as sortBreaks(.., false) returned     *)
(* them: a later row with the same ID replaces an earlier one.             *)
mapDataToColour(data, breaks, idPrefix) ==
    IF \E i \in 1..Len(data) : ~getColour(data[i].Value, breaks).ok THEN Panic
    ELSE Ok([id \in {idPrefix \o data[i].ID : i \in 1..Len(data)} |->
               LET last == MaxOf({i \in 1..Len(data) : idPrefix \o data[i].ID = id})
               IN [value |-> data[last].Value,
                   colour |-> getColour(data[last].Value, breaks).val]])

(* The loop of setChoroplethColoursAndTitles *)
RECURSIVE TitleLoop(_, _, _, _, _)
TitleLoop(features, heap, i, req, dataMap) ==
    IF i > Len(features) THEN Done(heap)
    ELSE LET f == features[i]
             m == MapAt(heap, f.Properties)
             nameProperty == req.Geography.NameProperty
             title == IF nameProperty \in DOMAIN m THEN m[nameProperty] ELSE <<>>
             exists == f.ID \in DOMAIN dataMap
             style == IF exists
                      THEN <<"fill: ", dataMap[f.ID].colour, ";">>
                      ELSE <<"fill: url(#">> \o req.Filename \o <<"-nodata);">>
             newTitle == IF exists
                         THEN title \o <<" ">> \o req.Choropleth.ValuePrefix
                                    \o <<FormatG(dataMap[f.ID].value)>>
                                    \o req.Choropleth.ValueSuffix
                         ELSE title \o <<" ", MissingDataText>>
         IN IF f.Properties = 0 THEN Faulted(heap)
            ELSE LET titled == [heap EXCEPT ![f.Properties] = MapPut(m, nameProperty, newTitle)]
                     r == appendProperty(titled, f.Properties, "style", style)
                 IN TitleLoop(features, r.heap, i + 1, req, dataMap)

setChoroplethColoursAndTitles(features, heap, req, idPrefix, breaks) ==
    IF req.Choropleth.nil \/ req.Data.nil THEN Done(heap)
    ELSE LET dataMap == mapDataToColour(req.Data.rows, breaks, idPrefix)
         IN IF ~dataMap.ok THEN Faulted(heap)
            ELSE TitleLoop(features, heap, 1, req, dataMap.val)

(* getFeatureAttributesAndTitle: what DrawWithProjection writes for one    *)
(* feature under UseProperties(style, class) and WithTitles(titleProp).    *)
getFeatureAttributesAndTitle(heap, titleProp, f) ==
    LET m == MapAt(heap, f.Properties)
    IN [id |-> f.ID,
        attrs |-> [k \in DOMAIN m \cap {"style", "class"} |-> m[k]],
        title |-> IF titleProp \in DOMAIN m THEN m[titleProp] ELSE <<>>]

(* DrawWithProjection: the patterns of the <defs> and one element per feature *)
DrawWithProjection(features, heap, titleProp, patterns) ==
    [patterns |-> patterns,
     elements |-> [i \in 1..Len(features) |->
                      getFeatureAttributesAndTitle(heap, titleProp, features[i])]]

(* the breakInfo of every break, given the sorted breaks and the range of  *)
(* the legend: RelativeSize is (UpperBound - LowerBound) / totalRange      *)
breakInfo(breaks, minValue, maxValue) ==
    LET n == Len(breaks)
        lower(i) == IF i = 1 THEN minValue ELSE breaks[i].LowerBound
        upper(i) == IF i = n THEN maxValue ELSE breaks[i + 1].LowerBound
    IN [i \in 1..n |->
          [LowerBound |-> lower(i),
           UpperBound |-> upper(i),
           RelativeSize |-> FDiv(F(upper(i) - lower(i)), F(maxValue - minValue)),
           Colour |-> breaks[i].Colour]]

DataValues(req) == {req.Data.rows[i].Value : i \in 1..Len(req.Data.rows)}

(* a legend whose range ends at the larger of the largest data value and   *)
(* the UpperBound                                                          *)
getSortedBreakInfoMax(req, breaks) ==
    IF Len(req.Data.rows) = 0 \/ Len(breaks) < 2 THEN Panic
    ELSE Ok(breakInfo(breaks,
                      MinOf({MinOf(DataValues(req)), breaks[1].LowerBound}),
                      MaxOf({MaxOf(DataValues(req)), req.Choropleth.UpperBound})))

(* getSortedBreakInfo, given the breaks as sortBreaks(.., true) returned   *)
(* them: data[0] of no rows panics, and with a single break info[0] is     *)
(* still nil when its LowerBound is assigned.                              *)
getSortedBreakInfo(req, breaks) ==
    IF Len(req.Data.rows) = 0 \/ Len(breaks) < 2 THEN Panic
    ELSE LET minValue == MinOf({MinOf(DataValues(req)), breaks[1].LowerBound})
             maxValue == IF req.Choropleth.UpperBound < breaks[Len(breaks)].LowerBound
                         THEN MaxOf(DataValues(req)) ELSE req.Choropleth.UpperBound
         IN Ok(breakInfo(breaks, minValue, maxValue))

(* the relative position of the reference tick, from getSortedBreakInfo *)
referencePos(req, breaks) ==
    LET minValue == MinOf({MinOf(DataValues(req)), breaks[1].LowerBound})
        maxValue == IF req.Choropleth.UpperBound < breaks[Len(breaks)].LowerBound
                    THEN MaxOf(DataValues(req)) ELSE req.Choropleth.UpperBound
    IN FDiv(F(req.Choropleth.ReferenceValue - minValue), F(maxValue - minValue))

(* getGeoJSON's sanity check *)
GeoJSONMissing(req, arcs, objs) ==
    req.Geography.nil \/ req.Geography.TopojsonNil \/ Len(arcs) = 0 \/ Len(objs) = 0

----------------------------------------------------------------------------
(* Requests handed to the renderer *)

NoChoropleth ==
    [nil |-> TRUE, Breaks |-> <<>>, UpperBound |-> 0,
     ReferenceValue |-> 0, ReferenceValueText |-> <<>>,
     ValuePrefix |-> <<>>, ValueSuffix |-> <<>>,
     HorizontalLegendPosition |-> "", VerticalLegendPosition |-> ""]

MkChoropleth(breaks) ==
    [nil |-> FALSE, Breaks |-> breaks, UpperBound |-> 3,
     ReferenceValue |-> 0, ReferenceValueText |-> <<>>,
     ValuePrefix |-> <<"GBP">>, ValueSuffix |-> <<>>,
     HorizontalLegendPosition |-> "before", VerticalLegendPosition |-> "after"]

MkBreak(lowerBound, colour) == [LowerBound |-> lowerBound, Colour |-> colour]

ChoroplethSamples ==
    { NoChoropleth,
      MkChoropleth(<<>>),
      MkChoropleth(<<MkBreak(1, "green")>>),
      MkChoropleth(<<MkBreak(2, "red"), MkBreak(0, "blue")>>) }

MkRow(id, value) == [ID |-> id, Value |-> value]

DataSamples ==
    { [nil |-> TRUE, rows |-> <<>>],
      [nil |-> FALSE, rows |-> <<MkRow(<<"f0">>, 1)>>],
      [nil |-> FALSE, rows |-> <<MkRow(<<"f0">>, 1), MkRow(<<"f1">>, 3)>>],
      [nil |-> FALSE, rows |-> <<MkRow(<<"F0">>, 3), MkRow(<<"zz">>, 1)>>] }

MkGeography(isNil, topojsonNil) ==
    [nil |-> isNil, TopojsonNil |-> topojsonNil,
     IDProperty |-> "code", NameProperty |-> "name"]

MkRequest(geography, data, choropleth) ==
    [Filename |-> <<"map">>, Geography |-> geography, Data |-> data,
     Choropleth |-> choropleth,
     Title |-> <<>>, Subtitle |-> <<>>, Licence |-> <<>>, Source |-> <<>>,
     SourceLink |-> <<>>, Footnotes |-> <<>>, IncludeFallbackPng |-> FALSE,
     FontSize |-> 0]

(* Properties of a region as they arrive in a topology *)
PropSamples ==
    { [code |-> <<"f0">>, name |-> <<"feature 0">>],
      [code |-> <<"f1">>, name |-> <<"feature 1">>],
      [name |-> <<"feature 0">>],
      [code |-> <<"f0">>, class |-> <<"foo">>],
      EmptyMap }

(* A region at node n: a polygon around arc n - 2, with or without an ID,  *)
(* with a Properties map at address n or with none (address 0).            *)
RegionAt(n) ==
    {PolygonG(a, id, <<<<n - 2>>>>) : a \in {0, n}, id \in {<<>>, <<IdToken[n]>>}}

(* The heap with the maps of the regions at addresses 2 and 3 *)
RegionProps(m2, m3) ==
    [n \in 1..Len(IdToken) |-> IF n = 2 THEN m2 ELSE IF n = 3 THEN m3 ELSE EmptyMap]

MapsFor(region) == IF region.Properties = 0 THEN {EmptyMap} ELSE PropSamples

InitRender ==
    /\ IdleConvert
    /\ svgValue = <<>>
    /\ \/ \* a topology of one or two regions, as one collection or one polygon
          /\ Arcs = GeoArcs
          /\ \E r2 \in RegionAt(2), r3 \in RegionAt(3) :
                \E m2 \in MapsFor(r2), m3 \in MapsFor(r3) :
                    \/ /\ Objects = <<CollectionG(1, <<"g1">>, <<r2, r3>>)>>
                       /\ props = RegionProps(m2, m3)
                    \/ /\ Objects = <<r2>>
                       /\ r3 = PolygonG(0, <<>>, <<<<1>>>>)
                       /\ props = RegionProps(m2, EmptyMap)
          /\ \E d \in DataSamples, c \in ChoroplethSamples :
                request = MkRequest(MkGeography(FALSE, FALSE), d, c)
       \/ \* nothing to draw: no geography, no topology, no arcs or no objects
          /\ props = RegionProps(EmptyMap, EmptyMap)
          /\ \E g \in {MkGeography(TRUE, TRUE), MkGeography(FALSE, TRUE),
                       MkGeography(FALSE, FALSE)} :
                \E d \in DataSamples, c \in ChoroplethSamples :
                    /\ request = MkRequest(g, d, c)
                    /\ \/ Arcs = <<>> /\ Objects = <<>>
                       \/ /\ ~g.TopojsonNil
                          /\ Arcs = <<>>
                          /\ Objects = <<PolygonG(2, <<"g2">>, <<<<0>>>>)>>
                       \/ /\ ~g.TopojsonNil
                          /\ Arcs = GeoArcs
                          /\ Objects = <<>>
    /\ Transform = NoTransform
    /\ svgRequest = <<>>
    /\ out = [op |-> "none", ok |-> TRUE, val |-> <<>>]
    /\ renders = 0
    /\ lookup = <<>>
    /\ lsIn = <<>>
    /\ lsOut = NotRun
    /\ fc = NotRun
    /\ pc = "request"

Returned(op, val) == [op |-> op, ok |-> TRUE, val |-> val]

Panicked(op) == [op |-> op, ok |-> FALSE, val |-> <<>>]

(* MissingDataPattern with the file name filled in *)
MissingDataPatternFor(req) == <<"pattern ">> \o req.Filename \o <<"-nodata">>

(* What PrepareSVGRequest returns for a request and its topology, with    *)
(* the Objects ranged over in the given order and the breaks as            *)
(* sortBreaks(.., true) returned them: the SVGRequest, or a panic.         *)
PreparedSVGRequest(req, arcs, tr, objs, order, sorted) ==
    LET missing == GeoJSONMissing(req, arcs, objs)
        geoJSON == IF missing THEN Ok(<<>>) ELSE ToGeoJSON(arcs, tr, objs, order)
        info == IF ~req.Choropleth.nil /\ Len(req.Choropleth.Breaks) > 0
                THEN getSortedBreakInfo(req, sorted)
                ELSE Ok(<<>>)
    IN IF geoJSON.ok /\ info.ok
       THEN Ok([geoJSON |-> [nil |-> missing, Features |-> geoJSON.val],
                patterns |-> <<>>,
                breaks |-> info.val,
                referencePos |-> IF Len(info.val) > 0 THEN referencePos(req, sorted)
                                 ELSE F(0)])
       ELSE Panic

(* PrepareSVGRequest(request): decodes the topology and sorts the breaks *)
PrepareSVGRequest ==
    /\ pc \in {"request", "prepared"}
    /\ \E order \in Orders(Len(Objects)) :
          \E sorted \in sortBreaks(request.Choropleth.Breaks, TRUE) :
              LET r == PreparedSVGRequest(request, Arcs, Transform, Objects, order, sorted)
              IN IF r.ok
                 THEN /\ svgRequest' = r.val
                      /\ out' = Returned("PrepareSVGRequest", <<>>)
                      /\ pc' = "prepared"
                 ELSE /\ out' = Panicked("PrepareSVGRequest")
                      /\ pc' = "panicked"
                      /\ UNCHANGED svgRequest
    /\ UNCHANGED <<svgValue, Arcs, Transform, serverVars, Objects, props, lsIn, lsOut, fc,
                   request, renders, lookup>>

(* What RenderSVG does to an SVGRequest with a map in it, with the breaks  *)
(* as sortBreaks(.., false) returned them: the heap and the SVGRequest it  *)
(* leaves, and the drawing it returns unless it panics.                    *)
RenderedSVG(svgReq, heap, req, breaks) ==
    LET idPrefix == RenderIdPrefix(req)
        features == setFeatureIDs(svgReq.geoJSON.Features, heap,
                                  req.Geography.IDProperty, idPrefix)
        classed == setClassProperty(features, heap, RegionClassName)
        styled == IF classed.ok
                  THEN setChoroplethColoursAndTitles(features, classed.heap,
                                                     req, idPrefix, breaks)
                  ELSE classed
        patterns == Append(svgReq.patterns, MissingDataPatternFor(req))
    IN IF styled.ok
       THEN [ok |-> TRUE, heap |-> styled.heap,
             svgRequest |-> [svgReq EXCEPT !.geoJSON.Features = features,
                                           !.patterns = patterns],
             val |-> DrawWithProjection(features, styled.heap,
                                        req.Geography.NameProperty, patterns)]
       ELSE [ok |-> FALSE, heap |-> styled.heap,
             svgRequest |-> [svgReq EXCEPT !.geoJSON.Features = features],
             val |-> <<>>]

(* RenderSVG(svgRequest): sets IDs, class, title and style on the features *)
(* svgRequest holds, then draws them.                                      *)
RenderSVG ==
    /\ pc = "prepared"
    /\ renders < MaxRenders
    /\ renders' = renders + 1
    /\ IF svgRequest.geoJSON.nil
       THEN /\ out' = Returned("RenderSVG", <<>>)
            /\ UNCHANGED <<svgRequest, props, pc>>
       ELSE \E breaks \in sortBreaks(request.Choropleth.Breaks, FALSE) :
              LET r == RenderedSVG(svgRequest, props, request, breaks)
              IN /\ props' = r.heap
                 /\ svgRequest' = r.svgRequest
                 /\ IF r.ok
                    THEN out' = Returned("RenderSVG", r.val) /\ pc' = pc
                    ELSE out' = Panicked("RenderSVG") /\ pc' = "panicked"
    /\ UNCHANGED <<svgValue, Arcs, Transform, serverVars, Objects, lsIn, lsOut, fc, request, lookup>>

(* What both keys show: a colour and its bounds per break *)
KeyOf(breaks) == [i \in 1..Len(breaks) |-> breaks[i]]

(* The keys read request.Choropleth and the first and last break unchecked *)
KeyPanicsFor(svgReq, req) == req.Choropleth.nil \/ Len(svgReq.breaks) = 0

KeyPanics == KeyPanicsFor(svgRequest, request)

RenderKey(op) ==
    /\ pc = "prepared"
    /\ IF svgRequest.geoJSON.nil
       THEN out' = Returned(op, <<>>) /\ pc' = pc
       ELSE IF KeyPanics
            THEN out' = Panicked(op) /\ pc' = "panicked"
            ELSE out' = Returned(op, KeyOf(svgRequest.breaks)) /\ pc' = pc
    /\ UNCHANGED <<svgValue, Arcs, Transform, serverVars, Objects, props, lsIn, lsOut, fc,
                   request, svgRequest, renders, lookup>>

RenderVerticalKey == RenderKey("RenderVerticalKey")

RenderHorizontalKey == RenderKey("RenderHorizontalKey")

NextRender == PrepareSVGRequest \/ RenderSVG \/ RenderVerticalKey \/ RenderHorizontalKey

SpecRender == InitRender /\ [][NextRender]_vars

----------------------------------------------------------------------------
(* Claims about the render path *)

(* RenderSVG has drawn a map *)
Drawn == out.op = "RenderSVG" /\ out.ok /\ ~svgRequest.geoJSON.nil

Elements == out.val.elements

(* How many tokens of text are in S *)
Count(text, S) == Cardinality({i \in 1..Len(text) : text[i] \in S})

AttrOf(e, k) == IF k \in DOMAIN e.attrs THEN e.attrs[k] ELSE <<>>

(* C7: no call of the render path changes the topology: the Objects (IDs,  *)
(* arc index lists, and the Properties maps they own) and the Arcs stay as *)
(* they were constructed.                                                  *)
C7_TopologyUnchanged == [][Arcs' = Arcs /\ Objects' = Objects /\ props' = props]_vars

(* The case C7 is about: RenderSVG has drawn a region that owns a map *)
C7_Witness ==
    /\ Drawn
    /\ \E i \in 1..Len(svgRequest.geoJSON.Features) :
          svgRequest.geoJSON.Features[i].Properties # 0

(* The request is one whose features get a colour and a title *)
Styled == ~request.Choropleth.nil /\ ~request.Data.nil

StyleTokens == {"fill: ", "fill: url(#"}

TitleTokens == {MissingDataText} \cup {FormatG(v) : v \in 0..9}

(* C8: whatever calls came before, every feature RenderSVG draws carries   *)
(* one application of the styling: the region class once, and for a        *)
(* choropleth one fill style and one value (or "data unavailable") in the  *)
(* title.                                                                  *)
C8_StyledOnce ==
    Drawn =>
        \A i \in 1..Len(Elements) :
            /\ Count(AttrOf(Elements[i], "class"), {RegionClassName}) = 1
            /\ Styled => /\ Count(AttrOf(Elements[i], "style"), StyleTokens) = 1
                         /\ Count(Elements[i].title, TitleTokens) = 1

(* The case C8 is about: RenderSVG has drawn the same request twice *)
C8_Witness == Drawn /\ renders = 2 /\ Len(Elements) > 0

(* C9: the IDs of the features of one render are pairwise distinct *)
C9_FeatureIDsDistinct ==
    Drawn =>
        \A i, j \in 1..Len(Elements) : Elements[i].id = Elements[j].id => i = j

(* The case C9 is about: RenderSVG has assigned IDs to two features *)
C9_Witness == Drawn /\ renders = 1 /\ Len(Elements) = 2

----------------------------------------------------------------------------
(* The colour lookup of mapDataToColour for one data row: sortBreaks       *)
(* descending, then getColour.                                             *)

MaxBreaks == 3

(* Breaks in any order, some sharing a LowerBound *)
BreakSamples ==
    {MkBreak(lb, c) : lb \in {1, 3}, c \in {"red", "blue"}} \cup {MkBreak(2, "green")}

(* Values below, on, between and above the lower bounds *)
LookupValues == 0..4

InitColour ==
    /\ IdleConvert
    /\ svgValue = <<>>
    /\ \E b \in SeqsUpTo(BreakSamples, MaxBreaks), v \in LookupValues :
          lookup = [breaks |-> b, value |-> v, sorted |-> <<>>, colour |-> NotRun]
    /\ request = <<>>
    /\ svgRequest = <<>>
    /\ out = NotRun
    /\ renders = 0
    /\ Arcs = <<>>
    /\ Transform = NoTransform
    /\ Objects = <<>>
    /\ props = <<>>
    /\ lsIn = <<>>
    /\ lsOut = NotRun
    /\ fc = NotRun
    /\ pc = "start"

(* breaks := sortBreaks(choropleth.Breaks, false) *)
SortBreaks ==
    /\ pc = "start"
    /\ \E sorted \in sortBreaks(lookup.breaks, FALSE) :
          lookup' = [lookup EXCEPT !.sorted = sorted]
    /\ pc' = "sorted"
    /\ UNCHANGED <<svgValue, Arcs, Transform, serverVars, Objects, props, lsIn, lsOut, fc,
                   request, svgRequest, out, renders>>

(* getColour(row.Value, breaks) *)
GetColour ==
    /\ pc = "sorted"
    /\ lookup' = [lookup EXCEPT !.colour = getColour(lookup.value, lookup.sorted)]
    /\ pc' = "coloured"
    /\ UNCHANGED <<svgValue, Arcs, Transform, serverVars, Objects, props, lsIn, lsOut, fc,
                   request, svgRequest, out, renders>>

NextColour == SortBreaks \/ GetColour

SpecColour == InitColour /\ [][NextColour]_vars

LowerBounds == {lookup.breaks[i].LowerBound : i \in 1..Len(lookup.breaks)}

(* The lower bound the value falls to: the greatest one not above it, the  *)
(* smallest one when the value is below them all.                          *)
TargetBound ==
    IF \E lb \in LowerBounds : lb <= lookup.value
    THEN MaxOf({lb \in LowerBounds : lb <= lookup.value})
    ELSE MinOf(LowerBounds)

(* C10: for breaks that are not empty, the colour chosen for a value is    *)
(* the colour of a break with the greatest LowerBound <= the value, and of *)
(* a break with the smallest LowerBound when the value is below them all.  *)
C10_ColourOfGreatestLowerBound ==
    (pc = "coloured" /\ Len(lookup.breaks) > 0) =>
        /\ lookup.colour.ok
        /\ \E i \in 1..Len(lookup.breaks) :
              /\ lookup.breaks[i].LowerBound = TargetBound
              /\ lookup.breaks[i].Colour = lookup.colour.val

(* The case C10 is about: breaks given out of order, the value on one      *)
(* lower bound and below another                                           *)
C10_Witness ==
    /\ pc = "coloured"
    /\ Len(lookup.breaks) = 3
    /\ lookup.breaks[1].LowerBound < lookup.breaks[2].LowerBound
    /\ lookup.value \in LowerBounds
    /\ \E lb \in LowerBounds : lb > lookup.value
    /\ lookup.colour.ok

(* Below every lower bound the smallest break's colour is used *)
C10_BelowAllWitness ==
    /\ pc = "coloured"
    /\ Len(lookup.breaks) >= 2
    /\ \A lb \in LowerBounds : lb > lookup.value
    /\ lookup.colour.ok

----------------------------------------------------------------------------
(* The HTML figure: renderer/html.go.  A document is the sequence of its   *)
(* nodes in document order: an element by its opening tag with the tokens  *)
(* of its attribute values, a text token by token, an inserted svg by the  *)
(* tokens of its markup.  A marker is one token.  strings.Contains and     *)
(* strings.Replace(.., 1) search the serialised document, so they find the *)
(* first token that is the marker wherever it is: in a text, in an         *)
(* attribute value or inside inserted markup.                              *)

svgReplacementText == "[SVG Here]"

verticalKeyReplacementText == "[Vertical key Here]"

horizontalKeyReplacementText == "[Horizontal key Here]"

cssReplacementText == "[CSS Here]"

LegendPositionBefore == "before"

LegendPositionAfter == "after"

Node(tag, body) == [tag |-> tag, body |-> body]

Text(s) == Node("text", s)

IsText(n, s) == n.tag = "text" /\ n.body = s

(* idPrefix of html.go: "map-" + request.Filename *)
idPrefix(req) == <<"map-">> \o req.Filename

mapID(req) == idPrefix(req) \o <<"-map">>

FootnoteMarks == <<"[1]", "[2]", "[3]", "[4]">>

(* parseValue: a new line becomes a <br>, and when the request has         *)
(* footnotes the reference [n] to footnote n becomes a link to it.         *)
parseValue(req, value) ==
    [i \in 1..Len(value) |->
        IF value[i] = "\n" THEN Node("br", <<>>)
        ELSE IF \E n \in 1..Len(req.Footnotes) : n <= Len(FootnoteMarks) /\ value[i] = FootnoteMarks[n]
             THEN Node("a", idPrefix(req) \o <<"-note-", value[i]>>)
             ELSE Text(value[i])]

createFigure(req) ==
    <<Node("figure", idPrefix(req) \o <<"-figure">>)>>
    \o (IF Len(req.Title) > 0 \/ Len(req.Subtitle) > 0
        THEN <<Node("figcaption", <<"map__caption">>)>> \o parseValue(req, req.Title)
             \o (IF Len(req.Subtitle) > 0
                 THEN <<Node("br", <<>>), Node("span", <<"map__subtitle">>)>>
                      \o parseValue(req, req.Subtitle)
                 ELSE <<>>)
        ELSE <<>>)

addCssPlaceholder(req) == <<Text(cssReplacementText)>>

LegendDiv(req, which, marker) ==
    <<Node("div", idPrefix(req) \o <<"-legend-", which>>), Text(marker)>>

(* addSVGDivs: nothing at all without a choropleth; else the map's div     *)
(* with the legends' divs before and after it as configured.               *)
addSVGDivs(req) ==
    IF req.Choropleth.nil THEN <<>>
    ELSE (IF req.Choropleth.HorizontalLegendPosition = LegendPositionBefore
          THEN LegendDiv(req, "horizontal", horizontalKeyReplacementText) ELSE <<>>)
      \o (IF req.Choropleth.VerticalLegendPosition = LegendPositionBefore
          THEN LegendDiv(req, "vertical", verticalKeyReplacementText) ELSE <<>>)
      \o <<Node("div", mapID(req)), Text(svgReplacementText)>>
      \o (IF req.Choropleth.VerticalLegendPosition = LegendPositionAfter
          THEN LegendDiv(req, "vertical", verticalKeyReplacementText) ELSE <<>>)
      \o (IF req.Choropleth.HorizontalLegendPosition = LegendPositionAfter
          THEN LegendDiv(req, "horizontal", horizontalKeyReplacementText) ELSE <<>>)

addFooterItemsToList(req) ==
    Concat([i \in 1..Len(req.Footnotes) |->
               <<Node("li", idPrefix(req) \o <<"-note-", FormatG(i)>>)>>
               \o parseValue(req, req.Footnotes[i])])

addFooter(req) ==
    <<Node("footer", <<"figure__footer">>)>>
    \o (IF Len(req.Licence) > 0
        THEN <<Node("p", <<"figure__licence">>)>> \o [i \in 1..Len(req.Licence) |-> Text(req.Licence[i])]
        ELSE <<>>)
    \o (IF Len(req.Source) > 0
        THEN <<Node("p", <<"figure__source">>), Text("Source: ")>>
             \o (IF Len(req.SourceLink) > 0 THEN <<Node("a", req.SourceLink)>> ELSE <<>>)
             \o [i \in 1..Len(req.Source) |-> Text(req.Source[i])]
        ELSE <<>>)
    \o (IF Len(req.Footnotes) > 0
        THEN <<Node("p", <<"figure__notes">>), Text("Notes"), Node("ol", <<"figure__footnotes">>)>>
             \o addFooterItemsToList(req)
        ELSE <<>>)

renderHTML(req) ==
    createFigure(req) \o <<Node("div", <<"map_container">>)>> \o addCssPlaceholder(req)
    \o addSVGDivs(req) \o addFooter(req)

(* markup inserted into the document: what it shows and the tokens of its  *)
(* text, in the order they are written                                     *)
Markup(tag, body, tokens) ==
    [tag |-> tag, body |-> body, tokens |-> tokens, switch |-> ""]

(* the tokens of a node that a search of the serialised document meets: a  *)
(* base64 image holds none                                                 *)
Tokens(n) ==
    CASE n.tag = "text" -> <<n.body>>
      [] n.tag \in {"svg", "style"} -> n.tokens
      [] n.tag = "img" -> <<>>
      [] OTHER -> n.body

Holds(tokens, marker) == \E k \in 1..Len(tokens) : tokens[k] = marker

(* strings.Contains(doc, marker) *)
Contains(doc, marker) == \E i \in 1..Len(doc) : Holds(Tokens(doc[i]), marker)

(* the node n with its token k replaced by content: a text is one token;   *)
(* an opening tag or inserted markup is cut in two around the content      *)
cutAt(n, tokens, k, content) ==
    IF n.tag = "text" THEN <<content>>
    ELSE << IF n.tag \in {"svg", "style"}
            THEN [n EXCEPT !.tokens = SubSeq(tokens, 1, k - 1)]
            ELSE Node(n.tag, SubSeq(tokens, 1, k - 1)),
            content,
            Node("rest", SubSeq(tokens, k + 1, Len(tokens))) >>

replaceAt(doc, i, marker, content) ==
    SubSeq(doc, 1, i - 1)
    \o cutAt(doc[i], Tokens(doc[i]),
             MinOf({k \in 1..Len(Tokens(doc[i])) : Tokens(doc[i])[k] = marker}), content)
    \o SubSeq(doc, i + 1, Len(doc))

(* strings.Replace(doc, marker, content, 1): the first occurrence *)
Replace(doc, marker, content) ==
    IF Contains(doc, marker)
    THEN replaceAt(doc, MinOf({i \in 1..Len(doc) : Holds(Tokens(doc[i]), marker)}),
                   marker, content)
    ELSE doc

(* hasVerticalLegend and hasHorizontalLegend read request.Choropleth       *)
(* unchecked: a nil Choropleth is a nil pointer dereference                *)
hasVerticalLegend(req) ==
    IF req.Choropleth.nil THEN Panic
    ELSE Ok(req.Choropleth.VerticalLegendPosition
                \in {LegendPositionBefore, LegendPositionAfter})

hasHorizontalLegend(req) ==
    IF req.Choropleth.nil THEN Panic
    ELSE Ok(req.Choropleth.HorizontalLegendPosition
                \in {LegendPositionBefore, LegendPositionAfter})

(* the style block for a request with or without a vertical legend; the    *)
(* horizontal legend is asked for only when there is a vertical one        *)
styleBlock(req, vertical) ==
    Markup("style",
           [fixedWidth |-> TRUE,
            verticalLegend |-> vertical,
            horizontalLegend |-> IF vertical THEN hasHorizontalLegend(req).val ELSE FALSE],
           idPrefix(req))

(* renderCss: the SVGRequest's responsiveSize is never set by               *)
(* RenderHTMLWithSVG, so the width is fixed.                                *)
renderCss(req) ==
    IF ~hasVerticalLegend(req).ok THEN Panic
    ELSE Ok(styleBlock(req, hasVerticalLegend(req).val))

(* htmlutil.GetApproximateTextWidth and the labels of the reference tick.  *)

DefaultFontSize == 14

ViewBoxWidth == 400

KnownRunes ==
    {"0", "1", "2", "3", "4", "5", "6", "7", "8", "9", "i", "m",
     "[", "]", " ", "H", "a", "e", "k", "l", "n", "o", "r", "t", "y", "z"}

(* the entries of the characterWidths table for the runes of the samples *)
characterWidths ==
    [c \in KnownRunes |->
        CASE c \in {"i", "l"} -> Float(214, 1000)
          [] c \in {"[", "]", " ", "r", "t"} -> Float(286, 1000)
          [] c = "H" -> Float(714, 1000)
          [] c = "m" -> Float(786, 1000)
          [] OTHER -> Float(500, 1000)]

(* the width of a character the table does not have, and the spacing of    *)
(* the characters, for a font of size 1                                     *)
UnknownWidth == Float(8, 10)

LetterSpacing == Float(286, 10000)

(* the runeSize of the loop: an unknown character is taken to be wide *)
runeSize(r, fSize) ==
    IF r \in DOMAIN characterWidths
    THEN FMul(fSize, characterWidths[r])
    ELSE FMul(fSize, UnknownWidth)

(* the loop over the runes from the i-th on, size being the sum so far:    *)
(* size += runeSize + spacing.  A sum that is NaN stays NaN whatever is    *)
(* added to it.                                                             *)
RECURSIVE TextWidthFrom(_, _, _, _, _)
TextWidthFrom(text, i, size, fSize, spacing) ==
    IF i > Len(text) \/ IsNaN(size) THEN size
    ELSE TextWidthFrom(text, i + 1,
                       FAdd(size, FAdd(runeSize(text[i], fSize), spacing)),
                       fSize, spacing)

TextWidthAt(text, fSize) ==
    TextWidthFrom(text, 1, F(0), fSize, FMul(LetterSpacing, fSize))

(* the runes a range over a text yields: a token of one character is its  *)
(* rune, the marker of the horizontal key is a token of twenty-one         *)
runes(token) ==
    IF token = horizontalKeyReplacementText
    THEN <<"[", "H", "o", "r", "i", "z", "o", "n", "t", "a", "l", " ",
           "k", "e", "y", " ", "H", "e", "r", "e", "]">>
    ELSE <<token>>

GetApproximateTextWidth(text, fontSize) ==
    TextWidthAt(Concat([i \in 1..Len(text) |-> runes(text[i])]),
                IF fontSize = 0 THEN F(DefaultFontSize) ELSE F(fontSize))

(* horizontalRefTextInfo: the reference text and the reference value, the  *)
(* longer of the two as Long                                                *)
horizontalRefTextInfo(refText, refTextLen, refValue, refValueLen) ==
    IF FLess(refValueLen, refTextLen)
    THEN [referenceTextLong |-> refText,
          referenceTextLongLen |-> refTextLen,
          referenceTextShort |-> refValue,
          referenceTextShortLen |-> refValueLen]
    ELSE [referenceTextLong |-> refValue,
          referenceTextLongLen |-> refValueLen,
          referenceTextShort |-> refText,
          referenceTextShortLen |-> refTextLen]

getHorizontalRefTextInfo(req) ==
    horizontalRefTextInfo(
        req.Choropleth.ReferenceValueText,
        GetApproximateTextWidth(req.Choropleth.ReferenceValueText, req.FontSize),
        <<FormatG(req.Choropleth.ReferenceValue)>>,
        GetApproximateTextWidth(<<FormatG(req.Choropleth.ReferenceValue)>>, req.FontSize))

(* horizontalKeyInfo: the key at its default width, the longer label on    *)
(* the left unless the tick is less than halfway (switch)                   *)
horizontalKeyInfo(refInfo, switch, keyWidth, keyX) ==
    [referenceTextLeft |-> IF switch THEN refInfo.referenceTextShort
                           ELSE refInfo.referenceTextLong,
     referenceTextLeftLen |-> IF switch THEN refInfo.referenceTextShortLen
                              ELSE refInfo.referenceTextLongLen,
     referenceTextRight |-> IF switch THEN refInfo.referenceTextLong
                            ELSE refInfo.referenceTextShort,
     referenceTextRightLen |-> IF switch THEN refInfo.referenceTextLongLen
                               ELSE refInfo.referenceTextShortLen,
     keyWidth |-> keyWidth,
     keyX |-> keyX]

(* the texts of the request and of the topology that the map's markup      *)
(* holds, in the order DrawWithProjection writes them: the id of the svg,  *)
(* the patterns, and per feature its class, id and style (makeAttributes   *)
(* sorts the attributes) and its title                                     *)
mapTokens(req, drawing) ==
    mapID(req) \o <<"-svg">>
    \o Concat(drawing.patterns)
    \o Concat([i \in 1..Len(drawing.elements) |->
                  AttrOf(drawing.elements[i], "class") \o drawing.elements[i].id
                  \o AttrOf(drawing.elements[i], "style") \o drawing.elements[i].title])

(* the labels of the ticks of a key: the lower bound of every break, then  *)
(* the upper bound of the last                                             *)
keyTicks(breaks) ==
    [i \in 1..Len(breaks) |-> FormatG(breaks[i].LowerBound)]
    \o <<FormatG(breaks[Len(breaks)].UpperBound)>>

(* writeVerticalKeyRefTick: the reference text, then the reference value *)
writeVerticalKeyRefTick(text, value) == text \o <<FormatG(value)>>

(* writeHorizontalKeyRefTick: the label left of the tick, then the label   *)
(* right of it                                                             *)
writeHorizontalKeyRefTick(keyInfo) ==
    keyInfo.referenceTextLeft \o keyInfo.referenceTextRight

(* the reference tick of a key, drawn when the request has a reference     *)
(* text.  Which label the horizontal key has on which side is decided by   *)
(* their lengths and by the reference position; the width of the key,      *)
(* which getHorizontalKeyInfo fits afterwards, changes no label.           *)
keyRefTick(req, which, svgReq) ==
    IF Len(req.Choropleth.ReferenceValueText) = 0 THEN <<>>
    ELSE IF which = "vertical"
         THEN writeVerticalKeyRefTick(req.Choropleth.ReferenceValueText,
                                      req.Choropleth.ReferenceValue)
    ELSE writeHorizontalKeyRefTick(
             horizontalKeyInfo(getHorizontalRefTextInfo(req),
                               FLess(svgReq.referencePos, Half), F(0), F(0)))

(* the same for a key: the ids made of the file name, the title made of    *)
(* the value prefix and suffix, the colours of the breaks, the labels of   *)
(* the ticks, the reference text and value when the request has a          *)
(* reference text, and the missing data pattern                            *)
keyTokens(req, which, svgReq) ==
    req.Filename \o <<"-legend-", which, "-svg">>
    \o req.Filename \o <<"-legend-", which, "-container">>
    \o req.Choropleth.ValuePrefix \o req.Choropleth.ValueSuffix
    \o req.Filename \o <<"-legend-", which, "-key">>
    \o [i \in 1..Len(svgReq.breaks) |-> svgReq.breaks[i].Colour]
    \o keyTicks(svgReq.breaks)
    \o keyRefTick(req, which, svgReq)
    \o req.Filename \o <<"-nodata", MissingDataText>>

(* RenderVerticalKey and RenderHorizontalKey as functions of the SVGRequest: *)
(* the empty string without a map, else the key or a panic                  *)
RenderedKey(svgReq, req, which) ==
    IF svgReq.geoJSON.nil THEN Ok(Markup("svg", <<>>, <<>>))
    ELSE IF KeyPanicsFor(svgReq, req) THEN Panic
    ELSE Ok(Markup("svg", KeyOf(svgReq.breaks), keyTokens(req, which, svgReq)))

(* RenderSVG as a function of the SVGRequest, the empty map included: what *)
(* RenderedSVG leaves, with the markup of the drawing                      *)
markupOfMap(r, req) ==
    [ok |-> r.ok, heap |-> r.heap, svgRequest |-> r.svgRequest,
     val |-> IF r.ok THEN Markup("svg", r.val, mapTokens(req, r.val)) ELSE <<>>]

RenderedMap(svgReq, heap, req, breaks) ==
    IF svgReq.geoJSON.nil
    THEN [ok |-> TRUE, heap |-> heap, svgRequest |-> svgReq,
          val |-> Markup("svg", <<>>, <<>>)]
    ELSE markupOfMap(RenderedSVG(svgReq, heap, req, breaks), req)

(* What the converter's process does with an SVG *)
ConvertOutcomes == {"fails", "converts"}

(* renderPNG once Convert has returned: the image when the conversion      *)
(* worked, else the SVG itself                                             *)
renderPNG(svg, outcome) ==
    IF outcome = "converts" THEN Node("img", svg.body) ELSE svg

(* IncludeFallbackImage once Convert has returned: the SVG in a switch     *)
(* with the image, or with the placeholder                                 *)
IncludeFallbackImage(svg, outcome) ==
    [svg EXCEPT !.switch = IF outcome = "converts" THEN "img"
                           ELSE "Unsupported Browser"]

(* A render of html.go between two calls of Convert.  It is at its return  *)
(* with the document, it has panicked, or it waits for Convert on the svg  *)
(* that is to replace the marker of its stage in the document so far.      *)
Finished(doc) == [kind |-> "return", stage |-> "", doc |-> doc, svg |-> <<>>]

Aborted == [kind |-> "panic", stage |-> "", doc |-> <<>>, svg |-> <<>>]

Converting(stage, doc, svg) == [kind |-> "convert", stage |-> stage, doc |-> doc, svg |-> svg]

(* what a render works with: its entry point, the request, the SVGRequest  *)
(* PrepareSVGRequest made and the converter the package holds              *)
RenderOf(op, req, svgReq, converter) ==
    [op |-> op, req |-> req, svgRequest |-> svgReq, converter |-> converter]

(* whether the svg of a stage goes through Convert: renderPNG converts     *)
(* whatever it is given when there is a converter; RenderSVG and the keys  *)
(* convert a drawing when there is a converter and the request asks for    *)
(* the fallback image                                                      *)
converts(r) ==
    IF r.op = "RenderHTMLWithPNG" THEN r.converter # "nil"
    ELSE r.converter # "nil" /\ r.req.IncludeFallbackPng /\ ~r.svgRequest.geoJSON.nil

markerOf(stage) ==
    CASE stage = "map" -> svgReplacementText
      [] stage = "vertical" -> verticalKeyReplacementText
      [] stage = "horizontal" -> horizontalKeyReplacementText

RECURSIVE afterReplace(_, _, _)

(* the svg of a stage is rendered: Convert is called on it, or it replaces *)
(* the marker as it is and the render goes on                              *)
convertOrReplace(r, stage, doc, svg) ==
    IF converts(r) THEN Converting(stage, doc, svg)
    ELSE afterReplace(r, stage, Replace(doc, markerOf(stage), svg))

(* Convert has returned *)
afterConvert(r, step, outcome) ==
    afterReplace(r, step.stage,
                 Replace(step.doc, markerOf(step.stage),
                         IF r.op = "RenderHTMLWithPNG" THEN renderPNG(step.svg, outcome)
                         ELSE IncludeFallbackImage(step.svg, outcome)))

replaceKey(r, stage, doc, key) ==
    IF ~key.ok THEN Aborted ELSE convertOrReplace(r, stage, doc, key.val)

(* the last step: renderSVGs puts the style block in, renderPNGs nothing *)
replaceCss(r, doc) ==
    IF r.op = "RenderHTMLWithPNG" THEN Finished(Replace(doc, cssReplacementText, Text("")))
    ELSE IF ~renderCss(r.req).ok THEN Aborted
    ELSE Finished(Replace(doc, cssReplacementText, renderCss(r.req).val))

(* the horizontal key, when its marker is there: renderPNGs asks            *)
(* hasVerticalLegend first and drops the marker when there is a vertical    *)
(* legend                                                                   *)
replaceHorizontalKey(r, doc) ==
    IF ~Contains(doc, horizontalKeyReplacementText) THEN replaceCss(r, doc)
    ELSE IF r.op = "RenderHTMLWithSVG"
         THEN replaceKey(r, "horizontal", doc, RenderedKey(r.svgRequest, r.req, "horizontal"))
    ELSE IF ~hasVerticalLegend(r.req).ok THEN Aborted
    ELSE IF hasVerticalLegend(r.req).val
         THEN replaceCss(r, Replace(doc, horizontalKeyReplacementText, Text("")))
    ELSE replaceKey(r, "horizontal", doc, RenderedKey(r.svgRequest, r.req, "horizontal"))

(* the vertical key, when its marker is there *)
replaceVerticalKey(r, doc) ==
    IF Contains(doc, verticalKeyReplacementText)
    THEN replaceKey(r, "vertical", doc, RenderedKey(r.svgRequest, r.req, "vertical"))
    ELSE replaceHorizontalKey(r, doc)

(* what follows the replacement of a stage's marker *)
afterReplace(r, stage, doc) ==
    CASE stage = "map" -> replaceVerticalKey(r, doc)
      [] stage = "vertical" -> replaceHorizontalKey(r, doc)
      [] stage = "horizontal" -> replaceCss(r, doc)

(* What the start of a render leaves: the heap, the SVGRequest and how far *)
(* the render got                                                          *)
Started(heap, svgReq, step) == [heap |-> heap, svgRequest |-> svgReq, step |-> step]

(* the render once the map is drawn: the map is rendered, and replaces its *)
(* marker, whether or not the marker is there                              *)
renderOfMap(op, req, original, svg, converter) ==
    IF ~svg.ok THEN Started(svg.heap, svg.svgRequest, Aborted)
    ELSE Started(svg.heap, svg.svgRequest,
                 convertOrReplace(RenderOf(op, req, svg.svgRequest, converter),
                                  "map", original, svg.val))

(* the render on the prepared SVGRequest p *)
renderOfPrepared(op, req, original, p, heap, breaks, converter) ==
    IF ~p.ok THEN Started(heap, <<>>, Aborted)
    ELSE renderOfMap(op, req, original, RenderedMap(p.val, heap, req, breaks), converter)

(* renderSVGs(request, original) up to its first Convert, or to its end    *)
(* when it calls none                                                      *)
renderSVGs(req, original, heap, order, sorted, breaks, converter) ==
    renderOfPrepared("RenderHTMLWithSVG", req, original,
                     PreparedSVGRequest(req, Arcs, Transform, Objects, order, sorted),
                     heap, breaks, converter)

(* renderPNGs(request, original) up to its first Convert, or to its end    *)
(* when there is no converter                                              *)
renderPNGs(req, original, heap, order, sorted, breaks, converter) ==
    renderOfPrepared("RenderHTMLWithPNG", req, original,
                     PreparedSVGRequest(req, Arcs, Transform, Objects, order, sorted),
                     heap, breaks, converter)

----------------------------------------------------------------------------
(* Claims about the choropleth join and the drawing without a choropleth   *)

(* RenderSVG has drawn a freshly prepared request for the first time *)
DrawnOnce == Drawn /\ renders = 1

Rows == request.Data.rows

(* The rows whose ID, behind the prefix, is exactly the feature's ID *)
MatchingRows(e) == {i \in 1..Len(Rows) : RenderIdPrefix(request) \o Rows[i].ID = e.id}

Breaks == request.Choropleth.Breaks

(* The colours of the breaks a value falls to: greatest LowerBound <= v,   *)
(* the smallest LowerBound when v is below them all.                       *)
BreakColours(v) ==
    LET bounds == {Breaks[i].LowerBound : i \in 1..Len(Breaks)}
        target == IF \E lb \in bounds : lb <= v
                  THEN MaxOf({lb \in bounds : lb <= v})
                  ELSE MinOf(bounds)
    IN {Breaks[i].Colour : i \in {j \in 1..Len(Breaks) : Breaks[j].LowerBound = target}}

MissingFill == <<"fill: url(#">> \o request.Filename \o <<"-nodata);">>

(* C11: with a choropleth and data rows, a feature drawn by the first      *)
(* RenderSVG carries exactly one fill: the colour of the break of the row  *)
(* whose prefixed ID equals the feature's ID, and the missing-data pattern *)
(* when no row does; rows matching no feature colour nothing.              *)
C11_FillFromMatchingRow ==
    (DrawnOnce /\ Styled /\ Len(Rows) > 0) =>
        \A i \in 1..Len(Elements) :
            LET style == AttrOf(Elements[i], "style")
                rows == MatchingRows(Elements[i])
            IN /\ Count(style, StyleTokens) = 1
               /\ IF rows = {}
                  THEN style = MissingFill
                  ELSE \E r \in rows :
                          \E c \in BreakColours(Rows[r].Value) :
                              style = <<"fill: ", c, ";">>

(* The case C11 is about: one feature matched by a row, one matched by     *)
(* none, and a row that matches no feature                                 *)
C11_Witness ==
    /\ DrawnOnce /\ Styled
    /\ Len(Elements) = 2
    /\ MatchingRows(Elements[1]) # {}
    /\ MatchingRows(Elements[2]) = {}
    /\ \E r \in 1..Len(Rows) :
          \A i \in 1..Len(Elements) : r \notin MatchingRows(Elements[i])

C12_Styled(e) == "style" \in DOMAIN e.attrs

(* C12, the part that holds: without a choropleth RenderSVG, called on its *)
(* own, draws one element per feature, each with its class, its id and the *)
(* name property as its title, and no style attribute.                     *)
C12_NoChoroplethNoStyle ==
    (Drawn /\ request.Choropleth.nil) =>
        /\ Len(Elements) = Len(svgRequest.geoJSON.Features)
        /\ DOMAIN out.val = {"patterns", "elements"}
        /\ \A i \in 1..Len(Elements) :
              LET f == svgRequest.geoJSON.Features[i]
                  m == MapAt(props, f.Properties)
              IN /\ ~C12_Styled(Elements[i])
                 /\ DOMAIN Elements[i].attrs = {"class"}
                 /\ Count(Elements[i].attrs["class"], {RegionClassName}) >= 1
                 /\ Elements[i].id = f.ID
                 /\ Elements[i].title = IF request.Geography.NameProperty \in DOMAIN m
                                        THEN m[request.Geography.NameProperty]
                                        ELSE <<>>
                 /\ Count(Elements[i].title, TitleTokens) = 0

(* C12, two features drawn by RenderSVG for a request that has data rows   *)
(* and no choropleth                                                       *)
C12_Witness ==
    /\ Drawn /\ request.Choropleth.nil /\ ~request.Data.nil
    /\ Len(Elements) = 2
    /\ Elements[1].title # <<>>

----------------------------------------------------------------------------
(* The render entry points of html.go *)

(* Choropleths with every placing of the two legends *)
LegendSamples ==
    {[MkChoropleth(<<MkBreak(2, "red"), MkBreak(0, "blue")>>) EXCEPT
         !.HorizontalLegendPosition = h, !.VerticalLegendPosition = v] :
        h \in {"", LegendPositionBefore, LegendPositionAfter},
        v \in {"", LegendPositionBefore, LegendPositionAfter}}

(* Choropleths with a reference tick, the vertical legend before the map   *)
(* and the horizontal one after it: a short reference text, and one that   *)
(* is the marker of the horizontal key, left and right of the halfway mark *)
ReferenceSamples ==
    {[MkChoropleth(<<MkBreak(2, "red"), MkBreak(0, "blue")>>) EXCEPT
         !.HorizontalLegendPosition = LegendPositionAfter,
         !.VerticalLegendPosition = LegendPositionBefore,
         !.ReferenceValue = r.value, !.ReferenceValueText = r.text] :
        r \in {[text |-> <<"i">>, value |-> 2],
               [text |-> <<horizontalKeyReplacementText>>, value |-> 1],
               [text |-> <<horizontalKeyReplacementText>>, value |-> 2]}}

TitleSamples ==
    {<<>>, <<"Title">>, <<"See", "[1]", "\n", "below">>, <<"Map", svgReplacementText>>,
     <<horizontalKeyReplacementText>>}

(* the file name and the title of a request: a marker may be in either *)
TextSamples ==
    {[Filename |-> <<"map">>, Title |-> t] : t \in TitleSamples}
    \cup {[Filename |-> <<cssReplacementText>>, Title |-> <<"Title">>]}

(* the source and the footnotes of a request *)
FootnoteSamples ==
    {[Source |-> <<>>, Footnotes |-> <<>>],
     [Source |-> <<"source text">>, Footnotes |-> <<<<"Note1">>, <<"Note2">>>>]}

(* the topologies: none, one region, two regions, and two regions of which *)
(* one is named as a marker                                                *)
InitHTML ==
    /\ pngConverter \in {"nil", "exe"}
    /\ files = {}
    /\ calls = <<>>
    /\ http = <<>>
    /\ rendering = <<>>
    /\ svgValue = <<>>
    /\ \E g \in {"none", "one", "two", "named"} :
          /\ Arcs = IF g = "none" THEN <<>> ELSE GeoArcs
          /\ Objects = CASE g = "none" -> <<>>
                         [] g = "one" -> <<PolygonG(2, <<"g2">>, <<<<0>>>>)>>
                         [] OTHER -> <<CollectionG(1, <<"g1">>,
                                         <<PolygonG(2, <<>>, <<<<0>>>>),
                                           PolygonG(3, <<>>, <<<<1>>>>)>>)>>
          /\ props = CASE g = "two" ->
                            RegionProps([code |-> <<"f0">>, name |-> <<"feature 0">>],
                                        [code |-> <<"f1">>, name |-> <<"feature 1">>])
                       [] g = "named" ->
                            RegionProps([code |-> <<"f0">>, name |-> <<verticalKeyReplacementText>>],
                                        [code |-> <<"f1">>, name |-> <<"feature 1">>])
                       [] OTHER -> RegionProps(EmptyMap, EmptyMap)
          /\ \E c \in {NoChoropleth, MkChoropleth(<<>>)} \cup LegendSamples
                         \cup ReferenceSamples,
                d \in {[nil |-> TRUE, rows |-> <<>>],
                       [nil |-> FALSE, rows |-> <<MkRow(<<"f0">>, 1), MkRow(<<"f1">>, 3)>>]},
                text \in TextSamples,
                notes \in FootnoteSamples :
                request = [MkRequest(MkGeography(g = "none", g = "none"), d, c) EXCEPT
                              !.Filename = text.Filename, !.Title = text.Title,
                              !.Source = notes.Source, !.Footnotes = notes.Footnotes,
                              !.IncludeFallbackPng = TRUE]
    /\ Transform = NoTransform
    /\ svgRequest = <<>>
    /\ out = [op |-> "none", ok |-> TRUE, val |-> <<>>]
    /\ renders = 0
    /\ lookup = <<>>
    /\ lsIn = <<>>
    /\ lsOut = NotRun
    /\ fc = NotRun
    /\ pc = "request"

(* what a render that got as far as s leaves: it waits for Convert, it has  *)
(* returned its document, or it has panicked                                *)
HTMLStep(op, s) ==
    /\ props' = s.heap
    /\ CASE s.step.kind = "convert" ->
               /\ rendering' = [op |-> op, svgRequest |-> s.svgRequest, step |-> s.step]
               /\ out' = out
               /\ pc' = "converting"
         [] s.step.kind = "return" ->
               /\ rendering' = <<>>
               /\ out' = Returned(op, s.step.doc)
               /\ pc' = "request"
         [] s.step.kind = "panic" ->
               /\ rendering' = <<>>
               /\ out' = Panicked(op)
               /\ pc' = "panicked"

(* RenderHTMLWithSVG(request), up to its first call of Convert *)
RenderHTMLWithSVG ==
    /\ pc = "request"
    /\ renders < MaxRenders
    /\ renders' = renders + 1
    /\ \E order \in Orders(Len(Objects)) :
          \E sorted \in sortBreaks(request.Choropleth.Breaks, TRUE) :
              \E breaks \in sortBreaks(request.Choropleth.Breaks, FALSE) :
                  HTMLStep("RenderHTMLWithSVG",
                           renderSVGs(request, renderHTML(request), props,
                                      order, sorted, breaks, pngConverter))
    /\ UNCHANGED <<svgValue, Arcs, Transform, pngConverter, files, calls, http, Objects,
                   lsIn, lsOut, fc, request, svgRequest, lookup>>

(* RenderHTMLWithPNG(request): clears request.IncludeFallbackPng first; up *)
(* to its first call of Convert                                            *)
RenderHTMLWithPNG ==
    /\ pc = "request"
    /\ renders < MaxRenders
    /\ renders' = renders + 1
    /\ request' = [request EXCEPT !.IncludeFallbackPng = FALSE]
    /\ \E order \in Orders(Len(Objects)) :
          \E sorted \in sortBreaks(request.Choropleth.Breaks, TRUE) :
              \E breaks \in sortBreaks(request.Choropleth.Breaks, FALSE) :
                  HTMLStep("RenderHTMLWithPNG",
                           renderPNGs(request', renderHTML(request'), props,
                                      order, sorted, breaks, pngConverter))
    /\ UNCHANGED <<svgValue, Arcs, Transform, pngConverter, files, calls, http, Objects,
                   lsIn, lsOut, fc, svgRequest, lookup>>

(* pngConverter.Convert returns to the render that waits for it, with the  *)
(* image or with an error; the render goes on to its next call of Convert  *)
(* or to its end                                                           *)
ConvertReturns ==
    /\ pc = "converting"
    /\ \E outcome \in ConvertOutcomes :
          HTMLStep(rendering.op,
                   Started(props, rendering.svgRequest,
                           afterConvert(RenderOf(rendering.op, request, rendering.svgRequest,
                                                 pngConverter),
                                        rendering.step, outcome)))
    /\ UNCHANGED <<svgValue, Arcs, Transform, pngConverter, files, calls, http, Objects,
                   lsIn, lsOut, fc, request, svgRequest, renders, lookup>>

NextHTML == RenderHTMLWithSVG \/ RenderHTMLWithPNG \/ ConvertReturns

SpecHTML == InitHTML /\ [][NextHTML]_vars

(* How many nodes of the document have the tag *)
CountTag(doc, tag) == Cardinality({i \in 1..Len(doc) : doc[i].tag = tag})

HasNode(doc, tag, body) == \E i \in 1..Len(doc) : doc[i].tag = tag /\ doc[i].body = body

(* the last call of RenderHTMLWithSVG or RenderHTMLWithPNG that came to an *)
(* end returned                                                            *)
HTMLReturned == out.op \in {"RenderHTMLWithSVG", "RenderHTMLWithPNG"} /\ out.ok

(* C14: RenderHTMLWithSVG on a request with no geography and no choropleth *)
(* returns, without a panic, a figure whose footer holds the source        *)
(* paragraph and one list item per footnote.                               *)
C14_NoGeographyNoChoropleth ==
    (out.op = "RenderHTMLWithSVG" /\ request.Geography.nil /\ request.Choropleth.nil) =>
        /\ out.ok
        /\ CountTag(out.val, "figure") = 1
        /\ CountTag(out.val, "footer") = 1
        /\ Len(request.Source) > 0 => HasNode(out.val, "p", <<"figure__source">>)
        /\ CountTag(out.val, "li") = Len(request.Footnotes)

(* The case C14 is about: RenderHTMLWithSVG was called on a request with a *)
(* source and two footnotes and neither geography nor choropleth           *)
C14_Witness ==
    /\ out.op = "RenderHTMLWithSVG"
    /\ request.Geography.nil /\ request.Choropleth.nil
    /\ Len(request.Source) > 0
    /\ Len(request.Footnotes) = 2

(* a text of such a request holds the marker of the horizontal key *)
HorizontalMarkerInTexts ==
    \E i \in 1..Len(request.Title) : request.Title[i] = horizontalKeyReplacementText

(* RenderHTMLWithPNG does return the figure for such a request, unless a   *)
(* text of it holds the marker of the horizontal key: renderPNGs then asks *)
(* hasVerticalLegend                                                       *)
C14_PNGReturnsFigure ==
    (/\ out.op = "RenderHTMLWithPNG"
     /\ request.Geography.nil /\ request.Choropleth.nil
     /\ ~HorizontalMarkerInTexts) =>
        /\ out.ok
        /\ CountTag(out.val, "footer") = 1
        /\ CountTag(out.val, "li") = Len(request.Footnotes)

(* RenderHTMLWithPNG panics on such a request whose title is the marker of *)
(* the horizontal key                                                      *)
C14_PNGPanicsOnMarker ==
    (/\ out.op = "RenderHTMLWithPNG"
     /\ request.Choropleth.nil
     /\ HorizontalMarkerInTexts) => ~out.ok

C14_PNGPanicsWitness ==
    /\ out.op = "RenderHTMLWithPNG"
    /\ request.Geography.nil /\ request.Choropleth.nil
    /\ HorizontalMarkerInTexts
    /\ ~out.ok

(* Claims about a request without a choropleth *)

(* a render request with a map and no choropleth came to its end *)
NoChoroplethRendered ==
    /\ out.op \in {"RenderHTMLWithSVG", "RenderHTMLWithPNG"}
    /\ request.Choropleth.nil
    /\ ~GeoJSONMissing(request, Arcs, Objects)

(* node n of a document is the drawing of a map with one element per       *)
(* feature, each with a class and without a style                          *)
IsPlainDrawing(n) ==
    /\ n.tag \in {"svg", "img"}
    /\ \E order \in Orders(Len(Objects)) :
          Len(n.body.elements) = Len(ToGeoJSON(Arcs, Transform, Objects, order).val)
    /\ \A i \in 1..Len(n.body.elements) :
          /\ ~C12_Styled(n.body.elements[i])
          /\ DOMAIN n.body.elements[i].attrs = {"class"}

(* node n is the container of a legend *)
IsLegendDiv(n) ==
    /\ n.tag = "div"
    /\ \E which \in {"vertical", "horizontal"} :
          n.body = idPrefix(request) \o <<"-legend-", which>>

(* C12: a render request with Choropleth = nil produces a map drawing with *)
(* one element per feature, whose features carry only class, id and title  *)
(* and no style attribute, and no legend markup.                           *)
C12_NoChoroplethDrawsMap ==
    NoChoroplethRendered =>
        /\ out.ok
        /\ \E i \in 1..Len(out.val) : IsPlainDrawing(out.val[i])
        /\ \A i \in 1..Len(out.val) : ~IsLegendDiv(out.val[i])

(* The case C12 is about: RenderHTMLWithSVG was called on a request with   *)
(* a map of two regions, data rows and no choropleth, and panicked         *)
C12_PanicWitness ==
    /\ NoChoroplethRendered
    /\ out.op = "RenderHTMLWithSVG"
    /\ ~request.Data.nil
    /\ Len(Objects) = 1 /\ Objects[1].Type = "GeometryCollection"
    /\ ~out.ok

(* C12, RenderHTMLWithPNG on such a request: the figure is returned, with  *)
(* no legend and with no map either, since addSVGDivs made no container    *)
(* for it                                                                  *)
C12_NoMapWitness ==
    /\ NoChoroplethRendered
    /\ out.op = "RenderHTMLWithPNG"
    /\ out.ok
    /\ request.Title = <<"Title">>
    /\ CountTag(out.val, "svg") = 0 /\ CountTag(out.val, "img") = 0
    /\ \A i \in 1..Len(out.val) : ~IsLegendDiv(out.val[i])

(* Claims about the markers *)

Markers ==
    {svgReplacementText, verticalKeyReplacementText, horizontalKeyReplacementText,
     cssReplacementText}

(* the node that follows the map's div is the rendered map *)
MapInItsContainer ==
    \A i \in 1..Len(out.val) :
        (out.val[i].tag = "div" /\ out.val[i].body = mapID(request)) =>
            (i < Len(out.val) /\ out.val[i + 1].tag \in {"svg", "img"})

NoMarkerIn(text) == \A i \in 1..Len(text) : text[i] \notin Markers

(* the title, the subtitle and the footnotes hold none of the markers *)
NoMarkerInTexts ==
    /\ NoMarkerIn(request.Title)
    /\ NoMarkerIn(request.Subtitle)
    /\ \A n \in 1..Len(request.Footnotes) : NoMarkerIn(request.Footnotes[n])

(* nor does any other text that reaches the document: the file name, which *)
(* makes the ids, the properties of the features, which make the titles of *)
(* the map, and the texts of the choropleth, which the keys show           *)
NoMarkerAnywhere ==
    /\ NoMarkerInTexts
    /\ NoMarkerIn(request.Filename)
    /\ NoMarkerIn(request.Choropleth.ValuePrefix)
    /\ NoMarkerIn(request.Choropleth.ValueSuffix)
    /\ NoMarkerIn(request.Choropleth.ReferenceValueText)
    /\ \A a \in DOMAIN props : \A k \in DOMAIN props[a] : NoMarkerIn(props[a][k])

(* C25: the HTML RenderHTMLWithSVG and RenderHTMLWithPNG return holds none  *)
(* of the markers the renderer inserted; each one was replaced by its       *)
(* rendered content in its own container, whatever the title, the subtitle  *)
(* and the footnotes contain.                                               *)
C25_MarkersReplaced ==
    HTMLReturned =>
        /\ \A marker \in Markers : ~Contains(out.val, marker)
        /\ MapInItsContainer

(* C25, the part that holds: the markers are replaced in their containers   *)
(* when no text that reaches the document holds a marker                    *)
C25_ReplacedWhenTextsHoldNoMarker ==
    (HTMLReturned /\ NoMarkerAnywhere) =>
        /\ \A marker \in Markers : ~Contains(out.val, marker)
        /\ MapInItsContainer

(* C25 witness: the title holds the text of the map's marker; the map was   *)
(* put into the caption, and the marker of the map's div is still there     *)
C25_Witness ==
    /\ HTMLReturned
    /\ \E i \in 1..Len(request.Title) : request.Title[i] = svgReplacementText
    /\ \E i \in 1..(Len(out.val) - 1) :
          /\ out.val[i].tag = "div" /\ out.val[i].body = mapID(request)
          /\ IsText(out.val[i + 1], svgReplacementText)
    /\ \E i \in 1..Len(out.val), j \in 1..Len(out.val) :
          /\ i < j
          /\ out.val[i].tag \in {"svg", "img"}
          /\ out.val[j].tag = "div" /\ out.val[j].body = <<"map_container">>

(* C25, the ordinary case: a request with a title, a map and both legends   *)
(* whose markers were all replaced                                          *)
C25_ReplacedWitness ==
    /\ HTMLReturned
    /\ NoMarkerAnywhere
    /\ Len(request.Title) > 0
    /\ CountTag(out.val, "svg") >= 3
    /\ MapInItsContainer

(* C25, a marker in an attribute: the file name is the text of the style   *)
(* marker; the style block went into the id of the figure and the marker   *)
(* the renderer inserted is still there, with nothing in the title, the    *)
(* subtitle or the footnotes                                               *)
C25_MarkerInIdWitness ==
    /\ HTMLReturned
    /\ NoMarkerInTexts
    /\ out.op = "RenderHTMLWithSVG"
    /\ request.Filename = <<cssReplacementText>>
    /\ out.val[1].tag = "figure" /\ out.val[2].tag = "style"
    /\ \E i \in 1..Len(out.val) : IsText(out.val[i], cssReplacementText)

(* C25, a marker inside the inserted map: a feature is named as the marker *)
(* of the vertical key; the key went into the map's markup and the marker  *)
(* of the legend's div is still there                                      *)
C25_MarkerInMapWitness ==
    /\ HTMLReturned
    /\ NoMarkerInTexts
    /\ \E i \in 1..(Len(out.val) - 1) :
          /\ out.val[i].tag = "div"
          /\ out.val[i].body = idPrefix(request) \o <<"-legend-", "vertical">>
          /\ IsText(out.val[i + 1], verticalKeyReplacementText)

(* C25, a marker inside an inserted key: the reference text is the marker  *)
(* of the horizontal key and the vertical legend comes first; the          *)
(* horizontal key went into the markup of the vertical key and the marker  *)
(* of the horizontal legend's div is still there                           *)
C25_MarkerInKeyWitness ==
    /\ HTMLReturned
    /\ NoMarkerInTexts
    /\ out.op = "RenderHTMLWithSVG"
    /\ request.Choropleth.ReferenceValueText = <<horizontalKeyReplacementText>>
    /\ \E i \in 1..(Len(out.val) - 1) :
          /\ out.val[i].tag = "div"
          /\ out.val[i].body = idPrefix(request) \o <<"-legend-", "vertical">>
          /\ out.val[i + 1].tag = "svg"
    /\ \E i \in 1..(Len(out.val) - 1) :
          /\ out.val[i].tag = "div"
          /\ out.val[i].body = idPrefix(request) \o <<"-legend-", "horizontal">>
          /\ IsText(out.val[i + 1], horizontalKeyReplacementText)

(* a render of RenderHTMLWithPNG whose map was converted and whose key was *)
(* not                                                                     *)
MapConvertedKeyNot ==
    /\ HTMLReturned
    /\ out.op = "RenderHTMLWithPNG"
    /\ NoMarkerAnywhere
    /\ CountTag(out.val, "img") = 1
    /\ CountTag(out.val, "svg") = 1

----------------------------------------------------------------------------
(* Claims about requests with nothing to draw *)

NothingToDraw == GeoJSONMissing(request, Arcs, Objects)

(* C13: for a request with no geography, no topology, no arcs or no        *)
(* objects, PrepareSVGRequest and the RenderSVG, RenderVerticalKey and     *)
(* RenderHorizontalKey that follow it never panic and return the empty     *)
(* string, whatever the choropleth and the data rows are.                  *)
C13_NothingToDrawIsEmpty ==
    NothingToDraw =>
        /\ out.ok
        /\ out.op \in {"RenderSVG", "RenderVerticalKey", "RenderHorizontalKey"} =>
              out.val = <<>>

(* The case C13 is about: a key was asked for after PrepareSVGRequest, for *)
(* a request with a choropleth and no geography                            *)
C13_Witness ==
    /\ NothingToDraw
    /\ request.Geography.nil
    /\ ~request.Choropleth.nil
    /\ out.op = "RenderVerticalKey"

(* Where PrepareSVGRequest returns, the renderers do return the empty string *)
C13_EmptyOncePrepared ==
    (NothingToDraw /\ pc = "prepared") =>
        /\ out.ok
        /\ out.op \in {"RenderSVG", "RenderVerticalKey", "RenderHorizontalKey"} =>
              out.val = <<>>

----------------------------------------------------------------------------
(* geojson2svg: the SVG value, its cache of points and bounds, and Draw.    *)
(* A geometry is [Type, Coordinates]: a Point holds one point, a LineString *)
(* a list of points.  A feature is [ID, class, Geometry].                   *)

MaxElements == 2

MaxPatterns == 2

Point(x, y) == [Type |-> "Point", Coordinates |-> <<<<x, y>>>>]

LineString(pts) == [Type |-> "LineString", Coordinates |-> pts]

MkFeature(id, class, g) == [ID |-> id, class |-> class, Geometry |-> g]

(* ScaleFunc: the projections handed to DrawWithProjection and              *)
(* GetHeightForWidth; Draw passes the identity.                             *)
Projections == {"identity", "halveX"}

project(projection, p) ==
    IF projection = "identity" THEN <<F(p[1]), F(p[2])>>
    ELSE <<FDiv(F(p[1]), F(2)), F(p[2])>>

NoPadding == [Top |-> 0, Right |-> 0, Bottom |-> 0, Left |-> 0]

NilBounds == [nil |-> TRUE, minX |-> F(0), minY |-> F(0), maxX |-> F(0), maxY |-> F(0)]

New ==
    [padding |-> NoPadding, attributes |-> EmptyMap, elements |-> <<>>,
     patterns |-> <<>>, bounds |-> NilBounds, points |-> <<>>]

(* an append that leaves the cached bounds and points as they were *)
keepCache(s) == s

clearCache(s) == [s EXCEPT !.bounds = NilBounds, !.points = <<>>]

(* one SVGElement: its elementType and the features it holds (a Geometry is *)
(* held as a feature without ID and properties)                             *)
Element(type, features) == [elementType |-> type, features |-> features]

appendElement(s, e) == clearCache([s EXCEPT !.elements = Append(@, e)])

(* collect: the points of a geometry *)
collect(g) == g.Coordinates

RECURSIVE Flatten(_)
Flatten(ss) == IF ss = <<>> THEN <<>> ELSE Head(ss) \o Flatten(Tail(ss))

(* the points getPoints gathers from the elements *)
AllPoints(elements) ==
    Flatten([i \in 1..Len(elements) |->
                Flatten([j \in 1..Len(elements[i].features) |->
                            collect(elements[i].features[j].Geometry)])])

(* getPoints: the cached list unless it is empty; returns the SVG with the  *)
(* cache filled                                                             *)
getPoints(s) ==
    IF Len(s.points) = 0 THEN [s EXCEPT !.points = AllPoints(s.elements)] ELSE s

(* the rectangle that holds the projected point q alone, and rectangle b   *)
(* grown to hold q                                                          *)
BoundsOfPoint(q) ==
    [nil |-> FALSE, minX |-> q[1], minY |-> q[2], maxX |-> q[1], maxY |-> q[2]]

GrowBounds(b, q) ==
    [b EXCEPT !.minX = FMin(@, q[1]), !.maxX = FMax(@, q[1]),
              !.minY = FMin(@, q[2]), !.maxY = FMax(@, q[2])]

RECURSIVE BoundLoop(_, _, _)
BoundLoop(projection, points, b) ==
    IF points = <<>> THEN b
    ELSE BoundLoop(projection, Tail(points),
                   GrowBounds(b, project(projection, Head(points))))

calcBoundingRectangle(projection, points) ==
    IF Len(points) = 0 THEN [NilBounds EXCEPT !.nil = FALSE]
    ELSE BoundLoop(projection, Tail(points),
                   BoundsOfPoint(project(projection, points[1])))

(* getBoundingRectangle: computes and caches the bounds when none are       *)
(* cached; the projection plays no part in the test                         *)
getBoundingRectangle(s, projection) ==
    IF s.bounds.nil
    THEN [getPoints(s) EXCEPT
            !.bounds = calcBoundingRectangle(projection, getPoints(s).points)]
    ELSE s

(* GetHeightForWidth: the SVG after the call and the height returned *)
HeightOfRatio(t, width, ratio) ==
    [svg |-> t, val |-> FFloor(FAdd(FMul(F(width), ratio), Half))]

HeightOfBounds(t, width) ==
    HeightOfRatio(t, width, FDiv(FSub(t.bounds.maxY, t.bounds.minY),
                                 FSub(t.bounds.maxX, t.bounds.minX)))

GetHeightForWidthOf(s, width, projection) ==
    HeightOfBounds(getBoundingRectangle(s, projection), width)

(* makeScaleFunc: the SVG after the call, the kind of function made and the *)
(* numbers it closes over                                                   *)
ScaleFuncOfBounds(u, w, h) ==
    [svg |-> u, kind |-> "scale",
     res |-> FMax(FDiv(FSub(u.bounds.maxX, u.bounds.minX), w),
                  FDiv(FSub(u.bounds.maxY, u.bounds.minY), h))]

ScaleFuncOfPoints(t, w, h, projection) ==
    CASE Len(t.points) = 0 -> [svg |-> t, kind |-> "projection"]
      [] Len(t.points) = 1 -> [svg |-> t, kind |-> "centre", w |-> w, h |-> h]
      [] OTHER -> ScaleFuncOfBounds(getBoundingRectangle(t, projection), w, h)

makeScaleFunc(s, width, height, projection) ==
    ScaleFuncOfPoints(getPoints(s),
                      F(width - s.padding.Left - s.padding.Right),
                      F(height - s.padding.Top - s.padding.Bottom),
                      projection)

(* the ScaleFunc makeScaleFunc returned, applied to point p *)
scaleProjected(sf, q) ==
    CASE sf.kind = "projection" -> q
      [] sf.kind = "centre" -> <<FDiv(sf.w, F(2)), FDiv(sf.h, F(2))>>
      [] OTHER ->
           <<FAdd(FDiv(FSub(q[1], sf.svg.bounds.minX), sf.res), F(sf.svg.padding.Left)),
             FAdd(FDiv(FSub(sf.svg.bounds.maxY, q[2]), sf.res), F(sf.svg.padding.Top))>>

scale(sf, projection, p) == scaleProjected(sf, project(projection, p))

(* sort.Strings over the attribute names the samples use *)
KeyOrder == <<"class", "id", "style", "viewBox">>

(* makeAttributes: the key="value" pairs in sorted key order *)
makeAttributes(as) ==
    LET keys == SelectSeq(KeyOrder, LAMBDA k : k \in DOMAIN as)
    IN [i \in 1..Len(keys) |-> <<keys[i], as[keys[i]]>>]

(* getFeatureAttributesAndTitle with the default useProp ("class") and no   *)
(* title property                                                           *)
FeatureAttributes(f) ==
    makeAttributes([k \in (IF f.ID = "" THEN {} ELSE {"id"})
                            \cup (IF f.class = "" THEN {} ELSE {"class"}) |->
                       IF k = "id" THEN f.ID ELSE f.class])

(* process: the tag drawn for a geometry and its scaled coordinates *)
process(sf, projection, g, attributes) ==
    [tag |-> IF g.Type = "Point" THEN "circle" ELSE "path",
     attributes |-> attributes,
     d |-> [i \in 1..Len(g.Coordinates) |-> scale(sf, projection, g.Coordinates[i])]]

(* the options of a Draw call: WithPadding(padding), WithPattern(pattern)   *)
(* and WithAttribute(attribute[1], attribute[2]), each given or not         *)
MkOptions(withPadding, padding, withPattern, withAttribute) ==
    [withPadding |-> withPadding, padding |-> padding,
     withPattern |-> withPattern, pattern |-> "<pattern id=nodata/>",
     withAttribute |-> withAttribute, attribute |-> <<"class", "map">>]

applyOptions(s, opts) ==
    LET a == IF opts.withPadding THEN [s EXCEPT !.padding = opts.padding] ELSE s
        b == IF opts.withPattern
             THEN [a EXCEPT !.patterns = Append(@, opts.pattern)] ELSE a
    IN IF opts.withAttribute
       THEN [b EXCEPT !.attributes = MapPut(@, opts.attribute[1], opts.attribute[2])]
       ELSE b

(* makeSVGAttributes with a fixed size: width and height, then the SVG's    *)
(* attributes in sorted key order                                           *)
makeSVGAttributes(width, height, s) ==
    <<<<"width", width>>, <<"height", height>>>> \o makeAttributes(s.attributes)

(* the content DrawWithProjection writes: one drawing per geometry, a       *)
(* feature's with its attributes                                            *)
Content(sf, projection, elements) ==
    Flatten([i \in 1..Len(elements) |->
                [j \in 1..Len(elements[i].features) |->
                    LET f == elements[i].features[j]
                    IN process(sf, projection, f.Geometry,
                               IF elements[i].elementType = "Geometry" THEN <<>>
                               ELSE FeatureAttributes(f))]])

(* DrawWithProjection on SVG s: the SVG after the call, the markup          *)
(* returned, and the scale function that drew it                            *)
DrawWith(sf, width, height, projection) ==
    [svg |-> sf.svg,
     sf |-> sf,
     val |-> [attributes |-> makeSVGAttributes(width, height, sf.svg),
              patterns |-> sf.svg.patterns,
              content |-> Content(sf, projection, sf.svg.elements)]]

DrawOf(s, width, height, projection, opts) ==
    DrawWith(makeScaleFunc(applyOptions(s, opts), width, height, projection),
             width, height, projection)

----------------------------------------------------------------------------
(* One SVG value: geometries, features and feature collections are         *)
(* appended to it, and it is drawn and measured, in any order.              *)

GeometrySamples == { Point(2, 6), LineString(<<<<0, 0>>, <<14, 61>>>>) }

FeatureSamples == { MkFeature("f0", "region", LineString(<<<<1, 1>>, <<1, 1>>>>)) }

FeatureCollectionSamples ==
    { << MkFeature("f1", "region", LineString(<<<<0, 0>>, <<4, 3>>>>)),
         MkFeature("", "", Point(2, 1)) >> }

WidthSamples == {7, 10}

DrawSizes == { <<7, 7>> }

PaddingSamples == { [Top |-> 1, Right |-> 2, Bottom |-> 1, Left |-> 2] }

OptionSamples ==
    { MkOptions(FALSE, NoPadding, FALSE, FALSE),
      MkOptions(FALSE, NoPadding, TRUE, FALSE) }
    \cup { MkOptions(TRUE, pad, FALSE, TRUE) : pad \in PaddingSamples }

InitSVG ==
    /\ IdleConvert
    /\ svgValue = New
    /\ out = [op |-> "New", ok |-> TRUE, val |-> <<>>]
    /\ request = <<>>
    /\ svgRequest = <<>>
    /\ renders = 0
    /\ lookup = <<>>
    /\ Arcs = <<>>
    /\ Transform = NoTransform
    /\ Objects = <<>>
    /\ props = <<>>
    /\ lsIn = <<>>
    /\ lsOut = NotRun
    /\ fc = NotRun
    /\ pc = "start"

SVGIdle ==
    UNCHANGED <<Arcs, Transform, serverVars, Objects, props, lsIn, lsOut, fc,
                request, svgRequest, renders, lookup, pc>>

(* svg.AppendGeometry(g) *)
AppendGeometry ==
    /\ Len(svgValue.elements) < MaxElements
    /\ \E g \in GeometrySamples :
          svgValue' = appendElement(svgValue, Element("Geometry", <<MkFeature("", "", g)>>))
    /\ out' = [op |-> "AppendGeometry", ok |-> TRUE, val |-> <<>>]
    /\ SVGIdle

(* svg.AppendFeature(f) *)
AppendFeature ==
    /\ Len(svgValue.elements) < MaxElements
    /\ \E f \in FeatureSamples :
          svgValue' = appendElement(svgValue, Element("Feature", <<f>>))
    /\ out' = [op |-> "AppendFeature", ok |-> TRUE, val |-> <<>>]
    /\ SVGIdle

(* svg.AppendFeatureCollection(fc) *)
AppendFeatureCollection ==
    /\ Len(svgValue.elements) < MaxElements
    /\ \E c \in FeatureCollectionSamples :
          svgValue' = appendElement(svgValue, Element("FeatureCollection", c))
    /\ out' = [op |-> "AppendFeatureCollection", ok |-> TRUE, val |-> <<>>]
    /\ SVGIdle

(* what a drawing call leaves in out: its arguments, the markup and the     *)
(* kind of scale function that drew it                                      *)
DrawCall(op, width, height, projection, opts) ==
    /\ opts.withPattern => Len(svgValue.patterns) < MaxPatterns
    /\ \E r \in {DrawOf(svgValue, width, height, projection, opts)} :
          /\ svgValue' = r.svg
          /\ out' = [op |-> op, ok |-> TRUE, val |-> r.val,
                     width |-> width, height |-> height,
                     projection |-> projection, opts |-> opts,
                     kind |-> r.sf.kind]
    /\ SVGIdle

(* svg.Draw(width, height, opts...) *)
Draw ==
    \E size \in DrawSizes, opts \in OptionSamples :
       DrawCall("Draw", size[1], size[2], "identity", opts)

(* svg.DrawWithProjection(width, height, projection, opts...) *)
DrawProjected ==
    \E size \in DrawSizes, opts \in OptionSamples, projection \in Projections :
       DrawCall("DrawWithProjection", size[1], size[2], projection, opts)

(* svg.GetHeightForWidth(width, projection) *)
GetHeightForWidth ==
    /\ \E width \in WidthSamples, projection \in Projections :
          \E r \in {GetHeightForWidthOf(svgValue, width, projection)} :
             /\ svgValue' = r.svg
             /\ out' = [op |-> "GetHeightForWidth", ok |-> TRUE, val |-> r.val,
                        width |-> width, projection |-> projection]
    /\ SVGIdle

NextSVG ==
    \/ AppendGeometry
    \/ AppendFeature
    \/ AppendFeatureCollection
    \/ Draw
    \/ DrawProjected
    \/ GetHeightForWidth

SpecSVG == InitSVG /\ [][NextSVG]_vars

----------------------------------------------------------------------------
(* Claims about the cache of one SVG value *)

AppendOps == {"AppendGeometry", "AppendFeature", "AppendFeatureCollection"}

DrawOps == {"Draw", "DrawWithProjection"}

(* the last call read the bounding rectangle *)
UsedBounds ==
    \/ out.op = "GetHeightForWidth"
    \/ out.op \in DrawOps /\ out.kind = "scale"

BoundsOfAppended(projection) ==
    calcBoundingRectangle(projection, AllPoints(svgValue.elements))

(* C15: every append leaves no cached bounds and no cached points, so the   *)
(* point list a draw or a height computation works on is the list of all    *)
(* points appended so far, and the bounding rectangle it uses is the        *)
(* bounding rectangle of all of them (under one of the projections).        *)
C15_BoundsOfAllAppended ==
    /\ out.op \in AppendOps => svgValue.bounds.nil /\ svgValue.points = <<>>
    /\ out.op \in DrawOps \cup {"GetHeightForWidth"} =>
          svgValue.points = AllPoints(svgValue.elements)
    /\ UsedBounds =>
          /\ ~svgValue.bounds.nil
          /\ \E p \in Projections : svgValue.bounds = BoundsOfAppended(p)

(* C15 witness: a drawing of two elements whose rectangle is not the one of *)
(* the first element alone                                                  *)
C15_Witness ==
    /\ out.op = "Draw"
    /\ out.kind = "scale"
    /\ Len(svgValue.elements) = 2
    /\ C15_BoundsOfAllAppended
    /\ \A p \in Projections :
          svgValue.bounds #
             calcBoundingRectangle(p, AllPoints(SubSeq(svgValue.elements, 1, 1)))

----------------------------------------------------------------------------
(* Claims about the projection of the cached bounds *)

(* the last call was a drawing that scaled with the bounding rectangle *)
ScaledDrawing == out.op \in DrawOps /\ out.kind = "scale"

(* C28: the bounding rectangle a drawing is scaled with is the one of the  *)
(* points under the projection passed to that call, also when an earlier   *)
(* GetHeightForWidth or drawing on the same SVG value used another         *)
(* projection and nothing was appended since.                              *)
C28_BoundsOfOwnProjection ==
    ScaledDrawing => svgValue.bounds = BoundsOfAppended(out.projection)

(* C28, the scenario of the claim as a step: a drawing that follows a      *)
(* GetHeightForWidth directly scales with the bounds of its own projection *)
C28_DrawAfterGetHeightForWidth ==
    [][ ( /\ out.op = "GetHeightForWidth"
          /\ out'.op \in DrawOps
          /\ out'.kind = "scale" ) =>
            svgValue'.bounds =
                calcBoundingRectangle(out'.projection, AllPoints(svgValue'.elements))
      ]_vars

(* C28, the part that holds: a drawing that finds no cached bounds scales  *)
(* with the bounds of its own projection                                   *)
C28_OwnProjectionWhenNothingCached ==
    [][ ( /\ svgValue.bounds.nil
          /\ out'.op \in DrawOps
          /\ out'.kind = "scale" ) =>
            svgValue'.bounds =
                calcBoundingRectangle(out'.projection, AllPoints(svgValue'.elements))
      ]_vars

(* C28 witness: a Draw, whose projection is the identity, scaled with the  *)
(* bounds of the halved points that an earlier call left in the cache      *)
C28_Witness ==
    /\ out.op = "Draw"
    /\ out.kind = "scale"
    /\ svgValue.bounds = BoundsOfAppended("halveX")
    /\ svgValue.bounds # BoundsOfAppended("identity")

(* C28: a drawing with halveX scaled with the bounds of the halved points  *)
C28_OwnProjectionWitness ==
    /\ out.op = "DrawWithProjection"
    /\ out.kind = "scale"
    /\ out.projection = "halveX"
    /\ svgValue.bounds = BoundsOfAppended("halveX")
    /\ svgValue.bounds # BoundsOfAppended("identity")

----------------------------------------------------------------------------
(* Claims about the scale function *)

(* the coordinates a drawing call wrote *)
DrawnCoordinates ==
    UNION { {out.val.content[i].d[j] : j \in 1..Len(out.val.content[i].d)} :
              i \in 1..Len(out.val.content) }

InsidePadding(c) ==
    /\ FLeq(F(svgValue.padding.Left), c[1])
    /\ FLeq(c[1], F(out.width - svgValue.padding.Right))
    /\ FLeq(F(svgValue.padding.Top), c[2])
    /\ FLeq(c[2], F(out.height - svgValue.padding.Bottom))

(* the points are not all the same point *)
Spread(points) == \E i, j \in 1..Len(points) : points[i] # points[j]

(* C16: a drawing of at least two different points puts every coordinate    *)
(* between the left padding and width minus the right padding, and between  *)
(* the top padding and height minus the bottom padding.                     *)
C16_CoordinatesFit ==
    (out.op \in DrawOps /\ Len(svgValue.points) >= 2 /\ Spread(svgValue.points)) =>
        \A c \in DrawnCoordinates : InsidePadding(c)

(* C16, two points that are the same point, drawn with the rectangle of    *)
(* the projection drawn with: the bounds have no extent, the resolution is  *)
(* 0 and every coordinate is 0/0                                            *)
C16_CollapsedIsNaN ==
    (/\ out.op \in DrawOps
     /\ Len(svgValue.points) >= 2
     /\ ~Spread(svgValue.points)
     /\ svgValue.bounds = BoundsOfAppended(out.projection)) =>
        \A c \in DrawnCoordinates : IsNaN(c[1]) /\ IsNaN(c[2])

(* what the rounding of the resolution and of the division by it may put   *)
(* a coordinate outside the padded area: less than the last decimal that   *)
(* is written                                                               *)
RoundingSlack == Float(1, 1000000)

InsidePaddingRounded(c) ==
    /\ FLeq(FSub(F(svgValue.padding.Left), RoundingSlack), c[1])
    /\ FLeq(c[1], FAdd(F(out.width - svgValue.padding.Right), RoundingSlack))
    /\ FLeq(FSub(F(svgValue.padding.Top), RoundingSlack), c[2])
    /\ FLeq(c[2], FAdd(F(out.height - svgValue.padding.Bottom), RoundingSlack))

(* a drawing of points that are not all the same, with the rectangle of    *)
(* the projection drawn with                                                *)
DrawnWithOwnBounds ==
    /\ out.op \in DrawOps
    /\ Len(svgValue.points) >= 2
    /\ Spread(svgValue.points)
    /\ svgValue.bounds = BoundsOfAppended(out.projection)

(* C16, the part that holds: the coordinates fit, but for the rounding of  *)
(* float64, when the points are not all the same and the rectangle used is *)
(* the one of the projection drawn with                                     *)
C16_FitWhenSpread ==
    DrawnWithOwnBounds => \A c \in DrawnCoordinates : InsidePaddingRounded(c)

(* C16: a coordinate that rounding puts beyond the bottom edge: 61 / (61/7) *)
(* is the float64 above 7                                                   *)
C16_RoundedOutsideWitness ==
    /\ DrawnWithOwnBounds
    /\ out.height = 7
    /\ svgValue.padding.Bottom = 0
    /\ \E c \in DrawnCoordinates :
          FLess(F(7), c[2]) /\ FLess(c[2], FAdd(F(7), RoundingSlack))

(* C16 witness: a padded drawing of several points that fits and reaches    *)
(* the right edge of the padded area                                        *)
C16_Witness ==
    /\ out.op \in DrawOps
    /\ Len(svgValue.points) >= 2
    /\ Spread(svgValue.points)
    /\ svgValue.padding.Left > 0
    /\ \A c \in DrawnCoordinates : InsidePadding(c)
    /\ \E c \in DrawnCoordinates : c[1] = F(out.width - svgValue.padding.Right)

(* the extent of the appended points before projection *)
XsOfAppended == {AllPoints(svgValue.elements)[i][1] : i \in 1..Len(AllPoints(svgValue.elements))}

YsOfAppended == {AllPoints(svgValue.elements)[i][2] : i \in 1..Len(AllPoints(svgValue.elements))}

(* halveX halves the width of the bounds, so the aspect ratio doubles *)
RatioFactor(projection) == IF projection = "identity" THEN 1 ELSE 2

(* h is w * dy / dx rounded to the nearest integer, halves rounded up *)
IsRoundedUp(h, w, dy, dx) ==
    /\ 2 * dx * h <= 2 * w * dy + dx
    /\ 2 * w * dy + dx < 2 * dx * (h + 1)

(* h is an integer nearest to w * dy / dx: of a value halfway between two  *)
(* integers either is                                                       *)
IsRounded(h, w, dy, dx) ==
    /\ 2 * dx * h <= 2 * w * dy + dx
    /\ 2 * w * dy - dx <= 2 * dx * h

(* the value GetHeightForWidth returned is w * dy / dx rounded to the      *)
(* nearest integer for the extent of the appended points under the         *)
(* projection of the call; where that extent has no width the float64      *)
(* division makes it +Inf, or NaN when it has no height either             *)
HeightOfProjectedPoints ==
    LET dx == MaxOf(XsOfAppended) - MinOf(XsOfAppended)
        dy == RatioFactor(out.projection) * (MaxOf(YsOfAppended) - MinOf(YsOfAppended))
    IN CASE dx > 0 -> /\ IsFinite(out.val)
                      /\ out.val[2] = 1
                      /\ IsRounded(out.val[1], out.width, dy, dx)
         [] dy > 0 -> out.val = PosInf
         [] OTHER -> out.val = NaN

(* C17: for every non-empty point set, GetHeightForWidth(w, proj) is       *)
(* floor(w * (maxY - minY) / (maxX - minX) + 0.5) with the bounds of the    *)
(* points projected with proj: w times the aspect ratio of the projected    *)
(* bounding box, rounded to the nearest integer.                            *)
C17_HeightOfProjectedBounds ==
    (out.op = "GetHeightForWidth" /\ AllPoints(svgValue.elements) # <<>>) =>
        HeightOfProjectedPoints

(* C17 witness: the points (0,0), (4,3), (2,1) were measured with the       *)
(* identity, which left its bounds in the cache, and then with halveX: the  *)
(* call returned 8, the height of the identity, where the halved points     *)
(* have the ratio 3/2 and the height 15                                     *)
C17_StaleBoundsWitness ==
    /\ out.op = "GetHeightForWidth"
    /\ out.projection = "halveX"
    /\ out.width = 10
    /\ AllPoints(svgValue.elements) # <<>>
    /\ MaxOf(XsOfAppended) - MinOf(XsOfAppended) = 4
    /\ MaxOf(YsOfAppended) - MinOf(YsOfAppended) = 3
    /\ svgValue.bounds = BoundsOfAppended("identity")
    /\ svgValue.bounds # BoundsOfAppended("halveX")
    /\ out.val = F(8)
    /\ ~HeightOfProjectedPoints

(* C17, the part that holds: the height is the rounded ratio whenever the   *)
(* cached bounds are those of the projection of the call                    *)
C17_HeightIsRoundedRatio ==
    (/\ out.op = "GetHeightForWidth"
     /\ AllPoints(svgValue.elements) # <<>>
     /\ svgValue.bounds = BoundsOfAppended(out.projection)) =>
        HeightOfProjectedPoints

(* C17, a height that is rounded up from a half: 10 * 3 / 4 = 7.5           *)
C17_Witness ==
    /\ out.op = "GetHeightForWidth"
    /\ out.projection = "identity"
    /\ out.width = 10
    /\ AllPoints(svgValue.elements) # <<>>
    /\ svgValue.bounds = BoundsOfAppended("identity")
    /\ MaxOf(XsOfAppended) - MinOf(XsOfAppended) = 4
    /\ MaxOf(YsOfAppended) - MinOf(YsOfAppended) = 3
    /\ out.val = F(8)

(* C17, a height halfway between two integers that the rounding of the     *)
(* ratio brings down: 7 * 61 / 14 is 30.5, the float64 61/14 lies below     *)
(* the quotient, 7 times it below 30.5, and the floor of that plus 0.5 is   *)
(* 30, where 30.5 + 0.5 has the floor 31                                    *)
C17_HalfRoundedDownWitness ==
    /\ out.op = "GetHeightForWidth"
    /\ out.projection = "identity"
    /\ out.width = 7
    /\ AllPoints(svgValue.elements) # <<>>
    /\ svgValue.bounds = BoundsOfAppended("identity")
    /\ MaxOf(XsOfAppended) - MinOf(XsOfAppended) = 14
    /\ MaxOf(YsOfAppended) - MinOf(YsOfAppended) = 61
    /\ out.val = F(30)
    /\ ~IsRoundedUp(30, 7, 61, 14)

(* C17, the height of a single point: 0/0 *)
C17_SinglePointWitness ==
    /\ out.op = "GetHeightForWidth"
    /\ Len(AllPoints(svgValue.elements)) = 1
    /\ out.val = NaN

----------------------------------------------------------------------------
(* Claims about repeated drawing *)

SameArguments(a, b) ==
    /\ a.op \in DrawOps
    /\ b.op = a.op
    /\ b.width = a.width
    /\ b.height = a.height
    /\ b.projection = a.projection
    /\ b.opts = a.opts

Sorted(attributes) ==
    \A i, j \in 1..Len(attributes) :
       i < j => \E a, b \in 1..Len(KeyOrder) :
                   /\ KeyOrder[a] = attributes[i][1]
                   /\ KeyOrder[b] = attributes[j][1]
                   /\ a < b

(* C18: a Draw call that follows a Draw call on the same SVG value with the *)
(* same width, height, projection and options returns the same markup, and  *)
(* the attributes of every element are in sorted key order.                 *)
C18_DrawDeterministic ==
    [][/\ SameArguments(out, out') => out'.val = out.val
       /\ out'.op \in DrawOps =>
             \A i \in 1..Len(out'.val.content) : Sorted(out'.val.content[i].attributes)]_vars

(* C18, the part that holds: repeated drawing without WithPattern returns   *)
(* the same markup                                                          *)
C18_DeterministicWithoutPattern ==
    [][(SameArguments(out, out') /\ ~out.opts.withPattern) => out'.val = out.val]_vars

(* C18, the part that holds: attributes are in sorted key order, the SVG's  *)
(* own after width and height                                               *)
C18_AttributesSorted ==
    out.op \in DrawOps =>
       /\ \A i \in 1..Len(out.val.content) : Sorted(out.val.content[i].attributes)
       /\ Sorted(SubSeq(out.val.attributes, 3, Len(out.val.attributes)))

(* C18 witness: a drawing with WithPattern on an SVG value that was drawn   *)
(* with it before: the markup holds the pattern twice                       *)
C18_Witness ==
    /\ out.op = "Draw"
    /\ out.opts.withPattern
    /\ Len(svgValue.elements) > 0
    /\ Len(out.val.patterns) = 2

----------------------------------------------------------------------------
(* The legend's segments: getSortedBreakInfo on the breaks, the data rows   *)
(* and the UpperBound of a request.                                         *)

LegendBreakSamples ==
    {MkBreak(0, "blue"), MkBreak(1, "white"), MkBreak(2, "green"), MkBreak(4, "red"),
     MkBreak(5, "black")}

LegendRowSamples ==
    { <<>>,
      <<MkRow(<<"f0">>, 1)>>,
      <<MkRow(<<"f0">>, 3)>>,
      <<MkRow(<<"f0">>, 3), MkRow(<<"f1">>, 1)>>,
      <<MkRow(<<"f0">>, 5), MkRow(<<"f1">>, 1)>> }

UpperBoundSamples == {0, 3, 5, 6}

(* the part of a request getSortedBreakInfo reads *)
LegendRequest(breaks, rows, upperBound) ==
    [Data |-> [nil |-> rows = <<>>, rows |-> rows],
     Choropleth |-> [MkChoropleth(breaks) EXCEPT !.UpperBound = upperBound]]

InitLegend ==
    /\ IdleConvert
    /\ \E breaks \in NonEmptySeqsUpTo(LegendBreakSamples, MaxBreaks),
          rows \in LegendRowSamples, upperBound \in UpperBoundSamples :
          request = LegendRequest(breaks, rows, upperBound)
    /\ out = [op |-> "none", ok |-> TRUE, val |-> <<>>]
    /\ svgValue = <<>>
    /\ svgRequest = <<>>
    /\ renders = 0
    /\ lookup = <<>>
    /\ Arcs = <<>>
    /\ Transform = NoTransform
    /\ Objects = <<>>
    /\ props = <<>>
    /\ lsIn = <<>>
    /\ lsOut = NotRun
    /\ fc = NotRun
    /\ pc = "request"

(* getSortedBreakInfo(request), the sorting of the breaks included *)
GetSortedBreakInfo ==
    /\ pc = "request"
    /\ \E sorted \in sortBreaks(request.Choropleth.Breaks, TRUE) :
          LET r == getSortedBreakInfo(request, sorted)
          IN out' = [op |-> "getSortedBreakInfo", ok |-> r.ok, val |-> r.val]
    /\ pc' = "done"
    /\ UNCHANGED <<svgValue, Arcs, Transform, serverVars, Objects, props, lsIn, lsOut, fc,
                   request, svgRequest, renders, lookup>>

NextLegend == GetSortedBreakInfo

SpecLegend == InitLegend /\ [][NextLegend]_vars

(* Claims about the legend's range and segments *)

LegendDone == out.op = "getSortedBreakInfo"

BreakBounds == {request.Choropleth.Breaks[i].LowerBound : i \in 1..Len(request.Choropleth.Breaks)}

FirstSegment == out.val[1]

LastSegment == out.val[Len(out.val)]

(* C19, as stated: the legend runs from the smaller of the smallest data    *)
(* value and the smallest lower bound to the larger of the largest data     *)
(* value and the UpperBound.                                                *)
C19_MaxOfDataAndUpperBound ==
    (LegendDone /\ out.ok) =>
        /\ FirstSegment.LowerBound = MinOf(DataValues(request) \cup BreakBounds)
        /\ LastSegment.UpperBound =
              MaxOf(DataValues(request) \cup {request.Choropleth.UpperBound})

(* C19, amended: the legend runs from the smaller of the smallest data      *)
(* value and the smallest lower bound to the UpperBound, or to the largest  *)
(* data value when the UpperBound is below the largest lower bound; the     *)
(* first segment starts and the last one ends there.                        *)
C19_LegendRange ==
    (LegendDone /\ out.ok) =>
        /\ FirstSegment.LowerBound = MinOf(DataValues(request) \cup BreakBounds)
        /\ LastSegment.UpperBound =
              IF request.Choropleth.UpperBound < MaxOf(BreakBounds)
              THEN MaxOf(DataValues(request))
              ELSE request.Choropleth.UpperBound

(* C19 witness: a legend that ends at the UpperBound, below the largest     *)
(* data value                                                               *)
C19_Witness ==
    /\ LegendDone
    /\ out.ok
    /\ request.Choropleth.UpperBound >= MaxOf(BreakBounds)
    /\ MaxOf(DataValues(request)) > request.Choropleth.UpperBound
    /\ LastSegment.UpperBound = request.Choropleth.UpperBound
    /\ FirstSegment.LowerBound = MinOf(DataValues(request) \cup BreakBounds)

(* the sum of float64 values, from the first to the last and from the last *)
(* to the first                                                             *)
RECURSIVE FSum(_)
FSum(xs) ==
    IF xs = <<>> THEN F(0)
    ELSE FAdd(FSum(SubSeq(xs, 1, Len(xs) - 1)), xs[Len(xs)])

RECURSIVE FSumBack(_)
FSumBack(xs) == IF xs = <<>> THEN F(0) ELSE FAdd(Head(xs), FSumBack(Tail(xs)))

RelativeSizes(info) == [i \in 1..Len(info) |-> info[i].RelativeSize]

(* no segment is of negative size and every segment ends where the next    *)
(* one starts                                                               *)
Contiguous(info) ==
    /\ \A i \in 1..Len(info) : FLeq(F(0), info[i].RelativeSize)
    /\ \A i \in 1..(Len(info) - 1) : info[i].UpperBound = info[i + 1].LowerBound

(* the segments partition the key *)
Partition(info) == Contiguous(info) /\ FSum(RelativeSizes(info)) = F(1)

(* the same, the sum being 1 but for the rounding of the sizes *)
PartitionRounded(info) ==
    /\ Contiguous(info)
    /\ FLess(FAbs(FSub(FSum(RelativeSizes(info)), F(1))), RoundingSlack)
    /\ FLess(FAbs(FSub(FSumBack(RelativeSizes(info)), F(1))), RoundingSlack)

(* C20: for a request with at least one break and at least one data row the *)
(* segments partition the key: no relative size is negative, every segment  *)
(* ends where the next one starts, and the relative sizes sum to 1.         *)
C20_SegmentsPartition ==
    (/\ LegendDone
     /\ Len(request.Choropleth.Breaks) >= 1
     /\ Len(request.Data.rows) >= 1) =>
        out.ok /\ Partition(out.val)

(* C20, the part that holds: when the range ends at or above the largest   *)
(* lower bound and is not empty, no size is negative, the segments follow   *)
(* one another and the sizes sum to 1 but for the rounding of float64       *)
C20_PartitionWhenRangeCoversBreaks ==
    (/\ LegendDone
     /\ out.ok
     /\ LastSegment.UpperBound >= MaxOf(BreakBounds)
     /\ LastSegment.UpperBound > FirstSegment.LowerBound) =>
        PartitionRounded(out.val)

(* C20, sizes whose sum is not 1: the segments [0, 1], [1, 5] and [5, 6]    *)
(* have the sizes 1/6, 4/6 and 1/6 as float64 values, which sum to the      *)
(* float64 below 1 in either order                                          *)
C20_RoundedSumWitness ==
    /\ LegendDone
    /\ out.ok
    /\ Len(out.val) = 3
    /\ Contiguous(out.val)
    /\ FirstSegment.LowerBound = 0
    /\ LastSegment.UpperBound = 6
    /\ FLess(FSum(RelativeSizes(out.val)), F(1))
    /\ FLess(FSumBack(RelativeSizes(out.val)), F(1))

(* C20 witness: three segments that partition the key *)
C20_Witness ==
    /\ LegendDone
    /\ out.ok
    /\ Len(out.val) = 3
    /\ Partition(out.val)
    /\ \E i \in 1..3 : FLess(F(0), out.val[i].RelativeSize)
                       /\ FLess(out.val[i].RelativeSize, F(1))

(* C20, a segment of negative size: the data lies below the largest lower   *)
(* bound and so does the UpperBound                                         *)
C20_NegativeSizeWitness ==
    /\ LegendDone
    /\ out.ok
    /\ \E i \in 1..Len(out.val) : FLess(out.val[i].RelativeSize, F(0))

(* C20, a single break: getSortedBreakInfo panics *)
C20_SingleBreakWitness ==
    /\ LegendDone
    /\ Len(request.Choropleth.Breaks) = 1
    /\ Len(request.Data.rows) >= 1
    /\ ~out.ok

----------------------------------------------------------------------------
(* The horizontal key: the key geometry of renderer/svg.go, with the text   *)
(* widths of htmlutil.GetApproximateTextWidth.  A text is a sequence of     *)
(* one-character tokens; lengths are float64 values.                        *)


(* the room needed left of the key: half of the lower bound's text, or the *)
(* reference label where it reaches further (before = refPos - its length)  *)
leftOfKey(before, left) ==
    IF FLess(before, FSub(F(0), left)) THEN FAbs(before) ELSE left

(* the room needed right of the key (beyond = refPos + label - keyWidth) *)
rightOfKey(beyond, right) ==
    IF FLess(right, beyond) THEN beyond ELSE right

(* the key shortened when the labels reach beyond the svg *)
shortenKey(info, svgWidth, left, right) ==
    IF FLess(svgWidth, FAdd(FAdd(info.keyWidth, left), right))
    THEN [info EXCEPT !.keyWidth = FSub(svgWidth, FAdd(left, right)), !.keyX = left]
    ELSE info

(* the share of the width of the svg that the key takes by default *)
KeyShare == Float(9, 10)

(* the second half of getHorizontalKeyInfo: refPos is the pixel position   *)
(* of the reference tick within the key                                     *)
fitHorizontalKey(info, svgWidth, refPos, left, right) ==
    shortenKey(info, svgWidth,
               leftOfKey(FSub(refPos, info.referenceTextLeftLen), left),
               rightOfKey(FSub(FAdd(refPos, info.referenceTextRightLen), info.keyWidth),
                          right))

getHorizontalKeyInfo(svgWidth, sr) ==
    fitHorizontalKey(
        horizontalKeyInfo(getHorizontalRefTextInfo(sr.request),
                          FLess(sr.referencePos, Half),
                          FMul(svgWidth, KeyShare),
                          FDiv(FSub(svgWidth, FMul(svgWidth, KeyShare)), F(2))),
        svgWidth,
        FMul(FMul(svgWidth, KeyShare), sr.referencePos),
        FDiv(GetApproximateTextWidth(<<FormatG(sr.breaks[1].LowerBound)>>,
                                     sr.request.FontSize), F(2)),
        FDiv(GetApproximateTextWidth(<<FormatG(sr.breaks[Len(sr.breaks)].UpperBound)>>,
                                     sr.request.FontSize), F(2)))

(* the rects of the key: x and width of each break's colour, in the key's   *)
(* own coordinates (the key group is translated by keyX)                    *)
RECURSIVE keyRects(_, _, _)
keyRects(breaks, keyWidth, left) ==
    IF breaks = <<>> THEN <<>>
    ELSE <<[x |-> left, width |-> FMul(Head(breaks).RelativeSize, keyWidth)]>>
         \o keyRects(Tail(breaks), keyWidth,
                     FAdd(left, FMul(Head(breaks).RelativeSize, keyWidth)))

(* the geometry RenderHorizontalKey writes with the key info it got: the   *)
(* svg's width, the key, its rects, and the reference tick when there is a  *)
(* reference text                                                           *)
horizontalKeyOf(sr, keyInfo) ==
    [svgWidth |-> sr.ViewBoxWidth,
     keyInfo |-> keyInfo,
     rects |-> keyRects(sr.breaks, keyInfo.keyWidth, F(0)),
     refTick |-> Len(sr.request.Choropleth.ReferenceValueText) > 0,
     xPos |-> FMul(keyInfo.keyWidth, sr.referencePos)]

horizontalKey(sr) == horizontalKeyOf(sr, getHorizontalKeyInfo(sr.ViewBoxWidth, sr))

FontSizeSamples == {0, 440}

KeyRowSamples == {<<MkRow(<<"f0">>, 1)>>, <<MkRow(<<"f0">>, 3), MkRow(<<"f1">>, 9)>>}

KeyUpperBoundSamples == {0, 4, 9}

ReferenceValueSamples == {0, 1, 3, 6, 9}

ReferenceTextSamples == {<<>>, <<"i">>, <<"m">>, <<"m", "m">>}

(* the part of a request the horizontal key reads *)
KeyRequest(fontSize, breaks, rows, upperBound, refValue, refText) ==
    [FontSize |-> fontSize,
     Data |-> [nil |-> FALSE, rows |-> rows],
     Choropleth |-> [nil |-> FALSE, Breaks |-> breaks, UpperBound |-> upperBound,
                     ReferenceValue |-> refValue, ReferenceValueText |-> refText]]

InitKey ==
    /\ IdleConvert
    /\ \E fontSize \in FontSizeSamples,
          breaks \in NonEmptySeqsUpTo({MkBreak(0, "blue"), MkBreak(4, "red")}, MaxBreaks - 1),
          rows \in KeyRowSamples, upperBound \in KeyUpperBoundSamples,
          refValue \in ReferenceValueSamples, refText \in ReferenceTextSamples :
          request = KeyRequest(fontSize, breaks, rows, upperBound, refValue, refText)
    /\ out = NotRun
    /\ svgValue = <<>>
    /\ svgRequest = <<>>
    /\ renders = 0
    /\ lookup = <<>>
    /\ Arcs = <<>>
    /\ Transform = NoTransform
    /\ Objects = <<>>
    /\ props = <<>>
    /\ lsIn = <<>>
    /\ lsOut = NotRun
    /\ fc = NotRun
    /\ pc = "request"

(* PrepareSVGRequest, for a request with a geography: the view box is 400   *)
(* wide, and the breaks and the reference position are cached               *)
PrepareKey ==
    /\ pc = "request"
    /\ \E sorted \in sortBreaks(request.Choropleth.Breaks, TRUE) :
          LET r == getSortedBreakInfo(request, sorted)
          IN IF r.ok
             THEN /\ svgRequest' = [request |-> request,
                                    ViewBoxWidth |-> F(ViewBoxWidth),
                                    breaks |-> r.val,
                                    referencePos |-> referencePos(request, sorted)]
                  /\ pc' = "prepared"
                  /\ out' = out
             ELSE /\ svgRequest' = svgRequest
                  /\ pc' = "done"
                  /\ out' = [op |-> "PrepareSVGRequest", ok |-> FALSE, val |-> <<>>]
    /\ UNCHANGED <<svgValue, Arcs, Transform, serverVars, Objects, props, lsIn, lsOut, fc,
                   request, renders, lookup>>

(* RenderHorizontalKey(svgRequest) *)
HorizontalKey ==
    /\ pc = "prepared"
    /\ out' = [op |-> "RenderHorizontalKey", ok |-> TRUE, val |-> horizontalKey(svgRequest)]
    /\ pc' = "done"
    /\ UNCHANGED <<svgValue, Arcs, Transform, serverVars, Objects, props, lsIn, lsOut, fc,
                   request, svgRequest, renders, lookup>>

NextKey == PrepareKey \/ HorizontalKey

SpecKey == InitKey /\ [][NextKey]_vars

(* Claims about the horizontal key *)

KeyDrawn == pc = "done" /\ out.op = "RenderHorizontalKey"

(* the distance from the reference tick to the left edge of the svg, and    *)
(* to its right edge                                                        *)
SpaceLeftOfTick == FAdd(out.val.keyInfo.keyX, out.val.xPos)

SpaceRightOfTick == FSub(out.val.svgWidth, SpaceLeftOfTick)

RefLabelsDiffer ==
    out.val.keyInfo.referenceTextLeftLen # out.val.keyInfo.referenceTextRightLen

LongerLabelOnRoomierSide ==
    /\ FLess(SpaceRightOfTick, SpaceLeftOfTick) =>
          FLess(out.val.keyInfo.referenceTextRightLen, out.val.keyInfo.referenceTextLeftLen)
    /\ FLess(SpaceLeftOfTick, SpaceRightOfTick) =>
          FLess(out.val.keyInfo.referenceTextLeftLen, out.val.keyInfo.referenceTextRightLen)

KeyShortened == out.val.keyInfo.keyWidth # FMul(out.val.svgWidth, KeyShare)

(* C21: in the horizontal legend the longer of the two reference labels is  *)
(* on the side of the reference tick with more space between the tick and   *)
(* the edge of the svg, and the shorter label on the other side.            *)
C21_LongerLabelOnRoomierSide ==
    (KeyDrawn /\ out.val.refTick /\ RefLabelsDiffer) => LongerLabelOnRoomierSide

(* C21, the part that holds: the longer label is on the roomier side when   *)
(* the key keeps its default width of 90% of the svg                        *)
C21_RoomierSideOfDefaultKey ==
    (KeyDrawn /\ out.val.refTick /\ RefLabelsDiffer /\ ~KeyShortened) =>
        LongerLabelOnRoomierSide

(* C21 witness: the key was shortened for the labels, the tick ended up    *)
(* right of the middle of the svg, and the longer label is on its right     *)
C21_Witness ==
    /\ KeyDrawn
    /\ out.val.refTick
    /\ KeyShortened
    /\ FLess(F(0), svgRequest.referencePos)
    /\ FLess(svgRequest.referencePos, Half)
    /\ FLess(F(0), out.val.keyInfo.keyWidth)
    /\ FLess(out.val.keyInfo.keyWidth, out.val.svgWidth)
    /\ FLess(SpaceRightOfTick, SpaceLeftOfTick)
    /\ FLess(out.val.keyInfo.referenceTextLeftLen, out.val.keyInfo.referenceTextRightLen)

(* C21, the ordinary case: a default key with the longer label on the       *)
(* roomier side                                                             *)
C21_DefaultKeyWitness ==
    /\ KeyDrawn
    /\ out.val.refTick
    /\ RefLabelsDiffer
    /\ ~KeyShortened
    /\ FLess(SpaceLeftOfTick, SpaceRightOfTick)
    /\ LongerLabelOnRoomierSide

KeyInsideSVG ==
    /\ FLeq(F(0), out.val.keyInfo.keyX)
    /\ FLess(F(0), out.val.keyInfo.keyWidth)
    /\ FLeq(FAdd(out.val.keyInfo.keyX, out.val.keyInfo.keyWidth), out.val.svgWidth)

(* C30: for every request the colour key of the horizontal legend lies      *)
(* inside the legend svg: keyX >= 0, keyWidth > 0 and                       *)
(* keyX + keyWidth <= svgWidth.                                             *)
C30_KeyInsideSVG == KeyDrawn => KeyInsideSVG

(* C30, the part that holds: a key that is left with a positive, finite     *)
(* width starts at or right of 0 and ends at or left of the svg's width     *)
C30_InsideWhenWidthPositive ==
    (KeyDrawn /\ IsFinite(out.val.keyInfo.keyWidth)
              /\ FLess(F(0), out.val.keyInfo.keyWidth)) => KeyInsideSVG

(* C30 witness: the reference position lies within the key, the segments   *)
(* partition it, the labels need more room than the svg has, and the       *)
(* key's width is negative                                                  *)
C30_Witness ==
    /\ KeyDrawn
    /\ FLeq(F(0), svgRequest.referencePos)
    /\ FLeq(svgRequest.referencePos, F(1))
    /\ IsFinite(out.val.keyInfo.keyWidth)
    /\ FLess(out.val.keyInfo.keyWidth, F(0))
    /\ Partition(svgRequest.breaks)
    /\ \A i \in 1..Len(out.val.rects) : FLeq(out.val.rects[i].width, F(0))

(* C30, the ordinary case: a shortened key that lies inside the svg *)
C30_InsideWitness ==
    /\ KeyDrawn
    /\ KeyShortened
    /\ KeyInsideSVG
    /\ FLess(F(0), out.val.keyInfo.keyX)

----------------------------------------------------------------------------
(* The PNG converter: geojson2svg/svg2png.go, the package-level            *)
(* pngConverter of renderer/svg.go, and main.  Renders run concurrently,   *)
(* one per request; the working directory is a set of files, each with the *)
(* call that created it (by) and the call whose SVG its content comes from *)
(* (of).                                                                    *)

CallIds == {"a", "b"}

(* what randomString may return: nothing keeps two draws apart *)
TempNames == {"temp_X", "temp_Y"}

EntryPoints == {"RenderSVG", "RenderVerticalKey", "RenderHorizontalKey", "renderPNG"}

File(name, ext, by, of) == [name |-> name, ext |-> ext, by |-> by, of |-> of]

Named(fs, name, ext) == {f \in fs : f.name = name /\ f.ext = ext}

(* ioutil.WriteFile creates the file or truncates the one that is there *)
WriteFile(fs, name, ext, by, of) == (fs \ Named(fs, name, ext)) \cup {File(name, ext, by, of)}

IdleCall ==
    [pc |-> "idle", entry |-> "", fallback |-> FALSE, seen |-> <<>>, name |-> "",
     svg |-> "", png |-> "", err |-> "", removed |-> <<>>, ret |-> <<>>,
     markup |-> "", error |-> ""]

(* a deferred deletion that leaves the svg file behind *)
onlyPNG(name) == <<[name |-> name, ext |-> "png"]>>

(* Convert: defer deleteTemporaryFiles(tempSVG, tempPNG), the files the    *)
(* deletion goes through, in its order                                     *)
temporaryFiles(name) == <<[name |-> name, ext |-> "svg"], [name |-> name, ext |-> "png"]>>

(* deleteTemporaryFiles: the file its loop is at; one outcome is recorded  *)
(* per file it is done with                                                *)
fileToDelete(c) == temporaryFiles(c.name)[Len(c.removed) + 1]

(* deleteTemporaryFiles: the loop is done with a file and goes to the next *)
(* one, or Convert returns                                                 *)
deleted(c, outcome) ==
    [c EXCEPT !.removed = Append(@, outcome),
              !.pc = IF Len(c.removed) + 1 = Len(temporaryFiles(c.name))
                     THEN "return" ELSE "cleanup"]

(* a render that hands a failed conversion on to its caller *)
markupOrError(entry, err) ==
    IF err # "" THEN [markup |-> "", error |-> err]
    ELSE [markup |-> IF entry = "renderPNG" THEN "img" ELSE "svg switch img", error |-> ""]

(* what the render returns once Convert has: renderPNG the image or the    *)
(* plain svg, IncludeFallbackImage the svg with the image or with the      *)
(* "Unsupported Browser" placeholder; neither returns an error             *)
markupOf(entry, err) ==
    [markup |-> IF entry = "renderPNG"
                THEN (IF err = "" THEN "img" ELSE "svg")
                ELSE (IF err = "" THEN "svg switch img"
                      ELSE "svg switch Unsupported Browser"),
     error |-> ""]

(* requests reach the renderer as soon as main has started *)
ServingFromStart == pc \in {"main", "configured", "serving"}

(* requests reach the renderer once CreateRendererAPI has run *)
Serving == pc = "serving"

InitServe ==
    /\ IdleRender
    /\ pngConverter = "nil"
    /\ files = {}
    /\ calls = [r \in CallIds |-> IdleCall]
    /\ http = <<>>
    /\ rendering = <<>>
    /\ Arcs = <<>>
    /\ Transform = NoTransform
    /\ Objects = <<>>
    /\ props = <<>>
    /\ lsIn = <<>>
    /\ lsOut = NotRun
    /\ fc = NotRun
    /\ pc = "main"

ServeIdle ==
    UNCHANGED <<svgValue, Arcs, Transform, Objects, props, lsIn, lsOut, fc, renderVars,
                http, rendering>>

(* main: renderer.UsePNGConverter(geojson2svg.NewPNGConverter(..)) *)
UsePNGConverter ==
    /\ pc = "main"
    /\ pngConverter' = "exe"
    /\ pc' = "configured"
    /\ UNCHANGED <<files, calls>>
    /\ ServeIdle

(* main: api.CreateRendererAPI(..) *)
CreateRendererAPI ==
    /\ pc = "configured"
    /\ pc' = "serving"
    /\ UNCHANGED <<pngConverter, files, calls>>
    /\ ServeIdle

(* the renderer used without main, as its tests do: UsePNGConverter(nil)   *)
(* before the first render                                                 *)
UseNoConverter ==
    /\ pc = "main"
    /\ pngConverter' = "nil"
    /\ pc' = "serving"
    /\ UNCHANGED <<files, calls>>
    /\ ServeIdle

(* a render returns the plain svg without converting *)
ReturnPlain(c) == [c EXCEPT !.pc = "returned", !.markup = "svg"]

(* the start of a render up to its first read of pngConverter: RenderSVG   *)
(* copies it and drops the copy when no fallback is wanted, the keys and   *)
(* renderPNG test it for nil                                               *)
Begin(r) ==
    /\ Serving
    /\ calls[r].pc = "idle"
    /\ \E entry \in EntryPoints, fallback \in BOOLEAN :
          LET c == [calls[r] EXCEPT !.entry = entry, !.fallback = fallback,
                                    !.seen = <<pngConverter>>]
              plain == \/ pngConverter = "nil"
                       \/ (entry # "renderPNG" /\ ~fallback)
          IN calls' = [calls EXCEPT ![r] =
                         IF plain THEN ReturnPlain(c)
                         ELSE IF entry = "RenderSVG" THEN [c EXCEPT !.pc = "convert"]
                         ELSE [c EXCEPT !.pc = "use"]]
    /\ UNCHANGED <<pngConverter, files, pc>>
    /\ ServeIdle

(* the second read of pngConverter, for the call of IncludeFallbackImage   *)
(* or Convert: on a nil converter the call panics                          *)
Use(r) ==
    /\ calls[r].pc = "use"
    /\ calls' = [calls EXCEPT ![r] =
                   IF pngConverter = "nil"
                   THEN [@ EXCEPT !.seen = Append(@, pngConverter), !.pc = "returned",
                                  !.markup = "", !.error = "panic"]
                   ELSE [@ EXCEPT !.seen = Append(@, pngConverter), !.pc = "convert"]]
    /\ UNCHANGED <<pngConverter, files, pc>>
    /\ ServeIdle

(* Convert: the temporary names are drawn and the deletion is deferred *)
ConvertStart(r) ==
    /\ calls[r].pc = "convert"
    /\ \E name \in TempNames :
          calls' = [calls EXCEPT ![r] = [@ EXCEPT !.name = name, !.pc = "write"]]
    /\ UNCHANGED <<pngConverter, files, pc>>
    /\ ServeIdle

(* Convert: ioutil.WriteFile(tempSVG, svg, 0666) *)
ConvertWrite(r) ==
    /\ calls[r].pc = "write"
    /\ \E ok \in BOOLEAN :
          IF ok
          THEN /\ files' = WriteFile(files, calls[r].name, "svg", r, r)
               /\ calls' = [calls EXCEPT ![r] = [@ EXCEPT !.pc = "run"]]
          ELSE /\ files' = files
               /\ calls' = [calls EXCEPT ![r] = [@ EXCEPT !.err = "write", !.pc = "cleanup"]]
    /\ UNCHANGED <<pngConverter, pc>>
    /\ ServeIdle

(* Convert: cmd.Run() starts the executable, which reads the svg file it  *)
(* finds, or fails                                                         *)
ConvertRun(r) ==
    /\ calls[r].pc = "run"
    /\ \E ok \in BOOLEAN :
          LET found == Named(files, calls[r].name, "svg")
          IN calls' = [calls EXCEPT ![r] =
                         IF ok /\ found # {}
                         THEN [@ EXCEPT !.svg = (CHOOSE f \in found : TRUE).of,
                                        !.pc = "running"]
                         ELSE [@ EXCEPT !.err = "run", !.pc = "cleanup"]]
    /\ UNCHANGED <<pngConverter, files, pc>>
    /\ ServeIdle

(* Convert: the executable writes the png file of the svg it has read and  *)
(* exits, or fails; cmd.Run() returns                                      *)
ConvertRunReturns(r) ==
    /\ calls[r].pc = "running"
    /\ \E ok \in BOOLEAN :
          IF ok
          THEN /\ files' = WriteFile(files, calls[r].name, "png", r, calls[r].svg)
               /\ calls' = [calls EXCEPT ![r] = [@ EXCEPT !.pc = "read"]]
          ELSE /\ files' = files
               /\ calls' = [calls EXCEPT ![r] = [@ EXCEPT !.err = "run", !.pc = "cleanup"]]
    /\ UNCHANGED <<pngConverter, pc>>
    /\ ServeIdle

(* Convert: ioutil.ReadFile(tempPNG) and the encoding of what was read *)
ConvertRead(r) ==
    /\ calls[r].pc = "read"
    /\ \E ok \in BOOLEAN :
          LET found == Named(files, calls[r].name, "png")
          IN calls' = [calls EXCEPT ![r] =
                         IF ok /\ found # {}
                         THEN [@ EXCEPT !.png = (CHOOSE f \in found : TRUE).of, !.pc = "cleanup"]
                         ELSE [@ EXCEPT !.err = "read", !.pc = "cleanup"]]
    /\ UNCHANGED <<pngConverter, files, pc>>
    /\ ServeIdle

(* Convert returns, the deferred deleteTemporaryFiles runs: os.Stat on the *)
(* file its loop is at; a file that is not there is passed over            *)
deleteTemporaryFilesStat(r) ==
    /\ calls[r].pc = "cleanup"
    /\ calls' = [calls EXCEPT ![r] =
                   IF Named(files, fileToDelete(@).name, fileToDelete(@).ext) = {}
                   THEN deleted(@, "absent")
                   ELSE [@ EXCEPT !.pc = "remove"]]
    /\ UNCHANGED <<pngConverter, files, pc>>
    /\ ServeIdle

(* deleteTemporaryFiles: os.Remove on the file os.Stat has found; a Remove *)
(* that fails, the file being gone by now included, is logged              *)
deleteTemporaryFilesRemove(r) ==
    /\ calls[r].pc = "remove"
    /\ \E ok \in BOOLEAN :
          LET found == Named(files, fileToDelete(calls[r]).name, fileToDelete(calls[r]).ext)
          IN IF ok /\ found # {}
             THEN /\ files' = files \ found
                  /\ calls' = [calls EXCEPT ![r] = deleted(@, "removed")]
             ELSE /\ files' = files
                  /\ calls' = [calls EXCEPT ![r] = deleted(@, "failed")]
    /\ UNCHANGED <<pngConverter, pc>>
    /\ ServeIdle

(* Convert has returned: the render builds its markup from what Convert    *)
(* returned                                                                *)
ConvertReturn(r) ==
    /\ calls[r].pc = "return"
    /\ calls' = [calls EXCEPT ![r] =
                   [@ EXCEPT !.ret = <<calls[r].png, calls[r].err>>,
                             !.markup = markupOf(calls[r].entry, calls[r].err).markup,
                             !.error = markupOf(calls[r].entry, calls[r].err).error,
                             !.pc = "returned"]]
    /\ UNCHANGED <<pngConverter, files, pc>>
    /\ ServeIdle

NextServe ==
    \/ UsePNGConverter
    \/ CreateRendererAPI
    \/ UseNoConverter
    \/ \E r \in CallIds : Begin(r)
    \/ \E r \in CallIds : Use(r)
    \/ \E r \in CallIds : ConvertStart(r)
    \/ \E r \in CallIds : ConvertWrite(r)
    \/ \E r \in CallIds : ConvertRun(r)
    \/ \E r \in CallIds : ConvertRunReturns(r)
    \/ \E r \in CallIds : ConvertRead(r)
    \/ \E r \in CallIds : deleteTemporaryFilesStat(r)
    \/ \E r \in CallIds : deleteTemporaryFilesRemove(r)
    \/ \E r \in CallIds : ConvertReturn(r)

SpecServe == InitServe /\ [][NextServe]_vars

(* Claims about the converter *)

ReturnedCalls == {r \in CallIds : calls[r].pc = "returned"}

(* the calls that are inside Convert *)
InFlight ==
    {r \in CallIds :
        calls[r].pc \in {"write", "run", "running", "read", "cleanup", "remove", "return"}}

Converted(r) == calls[r].name # ""

(* C22: a conversion that fails, or a converter that is not there, is not   *)
(* fatal to a render: IncludeFallbackImage returns the svg with the         *)
(* "Unsupported Browser" placeholder, renderPNG returns the plain svg, a    *)
(* render without converter returns the plain svg, and none of them         *)
(* returns an error to its caller.                                          *)
C22_FailureStillReturnsMarkup ==
    \A r \in ReturnedCalls :
        /\ calls[r].error = ""
        /\ calls[r].seen[1] = "nil" => calls[r].markup = "svg"
        /\ (Converted(r) /\ calls[r].err # "") =>
              calls[r].markup = IF calls[r].entry = "renderPNG" THEN "svg"
                                ELSE "svg switch Unsupported Browser"

(* C22 witness: the executable of one render failed and it returned the    *)
(* svg with the placeholder, the other render found no file to read and    *)
(* returned the plain svg                                                  *)
C22_Witness ==
    /\ ReturnedCalls = CallIds
    /\ \E r \in CallIds : /\ calls[r].err = "run"
                          /\ calls[r].markup = "svg switch Unsupported Browser"
    /\ \E r \in CallIds : /\ calls[r].entry = "renderPNG"
                          /\ calls[r].err = "read"
                          /\ calls[r].markup = "svg"

(* C22 witness: no converter is configured and the render returns the      *)
(* plain svg                                                               *)
C22_NoConverterWitness ==
    \E r \in ReturnedCalls :
        /\ pngConverter = "nil"
        /\ calls[r].entry = "renderPNG"
        /\ calls[r].markup = "svg"
        /\ calls[r].error = ""

RemoveFailed(r) == \E i \in 1..Len(calls[r].removed) : calls[r].removed[i] = "failed"

(* C23: on every return path of Convert the deletion of both temporary     *)
(* files was attempted before it returned; when no deletion failed no file *)
(* the call created remains; and what Convert returns is what it had       *)
(* before the deletion, whether the deletion failed or not.                *)
C23_DeletionBeforeReturn ==
    \A r \in ReturnedCalls :
        Converted(r) =>
            /\ Len(calls[r].removed) = 2
            /\ ~RemoveFailed(r) => \A f \in files : f.by # r
            /\ calls[r].ret = <<calls[r].png, calls[r].err>>
            /\ (calls[r].err = "") = (calls[r].png # "")

(* C23 witness: one Convert returned after its executable failed, its svg  *)
(* file removed; the other returned its png, both of its files removed     *)
C23_Witness ==
    /\ ReturnedCalls = CallIds
    /\ \E r \in CallIds : /\ calls[r].err = "run"
                          /\ calls[r].removed = <<"removed", "absent">>
    /\ \E r \in CallIds : /\ calls[r].err = ""
                          /\ calls[r].removed = <<"removed", "removed">>
    /\ files = {}

(* C23 witness: a deletion failed, the file is still there and Convert     *)
(* returned its png all the same                                           *)
C23_DeletionFailedWitness ==
    \E r \in ReturnedCalls :
        /\ calls[r].removed = <<"failed", "removed">>
        /\ calls[r].ret = <<r, "">>
        /\ \E f \in files : f.by = r /\ f.ext = "svg"

(* C23 witness: the svg could not be written; there is nothing to delete   *)
C23_WriteFailedWitness ==
    \E r \in ReturnedCalls :
        /\ calls[r].err = "write"
        /\ calls[r].removed = <<"absent", "absent">>

NoSharedNames ==
    \A r \in InFlight, q \in InFlight : r # q => calls[r].name # calls[q].name

(* what a call got back is the png of its own svg *)
OwnPNG == \A r \in CallIds : calls[r].png \in {"", r}

(* the calls that have drawn their names drew different ones *)
DistinctNames ==
    \A r \in CallIds, q \in CallIds :
        (r # q /\ Converted(r) /\ Converted(q)) => calls[r].name # calls[q].name

(* C29: concurrent Convert calls never interfere: no two calls in flight    *)
(* use the same temporary file names, and each call reads back only the    *)
(* png produced from its own svg.                                          *)
C29_ConversionsDoNotInterfere == NoSharedNames /\ OwnPNG

(* C29, the part that holds: calls whose names differ read back the png of *)
(* their own svg, and every file of a name was created by the call of      *)
(* that name                                                               *)
C29_NoInterferenceWithDistinctNames ==
    DistinctNames =>
        /\ OwnPNG
        /\ \A f \in files : calls[f.by].name = f.name /\ f.of = f.by

(* C29 witness: both calls drew the same name, and one returned, without   *)
(* error, the png made from the other call's svg                           *)
C29_Witness ==
    \E r \in ReturnedCalls, q \in CallIds :
        /\ r # q
        /\ calls[r].name = calls[q].name
        /\ calls[r].err = ""
        /\ calls[r].ret = <<q, "">>

(* C29 witness: both calls drew the same name, and one failed to read its  *)
(* png because the other call's deletion had removed it                    *)
C29_DeletedByOtherWitness ==
    \E r \in CallIds, q \in ReturnedCalls :
        /\ r # q
        /\ calls[r].name = calls[q].name
        /\ calls[r].pc = "read"
        /\ Named(files, calls[r].name, "png") = {}

(* C29, the ordinary case: two calls with different names, both returned   *)
(* their own png                                                           *)
C29_DistinctNamesWitness ==
    /\ ReturnedCalls = CallIds
    /\ DistinctNames
    /\ \A r \in CallIds : calls[r].ret = <<r, "">>

(* C29 witness: a call read the png made of the other call's svg although  *)
(* the svg file in the directory is its own                                *)
C29_OwnSVGOtherPNGWitness ==
    \E r \in CallIds, q \in CallIds :
        /\ r # q
        /\ calls[r].name = calls[q].name
        /\ calls[r].png = q
        /\ \E f \in Named(files, calls[r].name, "svg") : f.of = r

(* C29 witness: a call whose executable failed returned with both files    *)
(* removed, and the svg file the other call wrote in between is there      *)
C29_RemovedAndStillThereWitness ==
    \E r \in ReturnedCalls, q \in CallIds :
        /\ r # q
        /\ calls[r].name = calls[q].name
        /\ calls[r].err = "run"
        /\ calls[r].removed = <<"removed", "removed">>
        /\ \E f \in Named(files, calls[r].name, "svg") : f.by = q

(* every read of pngConverter a render has made saw the same value *)
ReadsAgree(cs) ==
    \A r \in CallIds :
        \A i \in 1..Len(cs[r].seen), j \in 1..Len(cs[r].seen) : cs[r].seen[i] = cs[r].seen[j]

(* C24: the package-level pngConverter is assigned at startup, before any  *)
(* request is served, and never while a request is being rendered, so the  *)
(* reads of it during one render (the nil check and the use) observe the   *)
(* same value.                                                             *)
C24_AssignedBeforeServing ==
    [][/\ pngConverter' # pngConverter =>
             (pc = "main" /\ \A r \in CallIds : calls[r].pc = "idle")
       /\ ReadsAgree(calls')]_vars

(* C24 witness: main has assigned the converter, and a render has read it  *)
(* for its nil check and again for its use while another render is in      *)
(* flight                                                                  *)
C24_Witness ==
    /\ pc = "serving"
    /\ pngConverter = "exe"
    /\ \E r \in CallIds, q \in InFlight :
          /\ r # q
          /\ calls[r].seen = <<"exe", "exe">>
          /\ calls[r].pc = "convert"

----------------------------------------------------------------------------
(* The endpoint POST /render/{render_type}: api.renderMap.  A request body *)
(* is one whose Read fails, malformed json, the empty object "{}", or json *)
(* that parses into the RenderRequest held in request.                     *)

RenderTypeSamples == {"svg", "png", "html", "foo"}

BodySamples == {"unreadable", "malformed", "empty", "json"}

(* CreateRenderRequest: the error it returns, "" for none.  ioutil.ReadAll *)
(* comes first, then the parser, then the check for a body of two bytes.   *)
CreateRenderRequest(body) ==
    CASE body = "unreadable" -> "Failed to read message body"
      [] body = "malformed" -> "unmarshal error"
      [] body = "empty" -> "Bad request - Missing data in body"
      [] OTHER -> ""

(* ValidateRenderRequest: the geography with its topology and id property  *)
(* and at least one data row are mandatory                                 *)
ValidateRenderRequest(req) ==
    /\ ~req.Geography.nil
    /\ ~req.Geography.TopojsonNil
    /\ req.Geography.IDProperty # ""
    /\ Len(req.Data.rows) > 0

(* renderer.RenderHTML(renderRequest), the one renderer renderMap calls:   *)
(* the html figure with the svg map, up to its first call of Convert       *)
RenderHTML(req, heap, order, sorted, breaks, converter) ==
    renderSVGs(req, renderHTML(req), heap, order, sorted, breaks, converter)

Response(code, contentType, body) ==
    [op |-> "renderMap", ok |-> TRUE,
     val |-> [code |-> code, contentType |-> contentType, body |-> body]]

(* http.Error: the message as plain text *)
HTTPError(message, code) == Response(code, "text/plain; charset=utf-8", message)

APIChoroplethSamples ==
    { NoChoropleth,
      MkChoropleth(<<>>),
      MkChoropleth(<<MkBreak(0, "blue")>>),
      MkChoropleth(<<MkBreak(2, "red"), MkBreak(0, "blue")>>) }

InitAPI ==
    /\ pngConverter \in {"nil", "exe"}
    /\ files = {}
    /\ calls = <<>>
    /\ rendering = <<>>
    /\ http \in [renderType : RenderTypeSamples, body : BodySamples]
    /\ svgValue = <<>>
    /\ \E g \in {"none", "no topology", "one"} :
          /\ Arcs = IF g = "one" THEN GeoArcs ELSE <<>>
          /\ Objects = IF g = "one" THEN <<PolygonG(2, <<"g2">>, <<<<0>>>>)>> ELSE <<>>
          /\ \E c \in APIChoroplethSamples,
                d \in {[nil |-> TRUE, rows |-> <<>>],
                       [nil |-> FALSE, rows |-> <<MkRow(<<"f0">>, 1), MkRow(<<"f1">>, 3)>>]},
                title \in {<<>>, <<"Title">>} :
                request = [MkRequest(MkGeography(g = "none", g # "one"), d, c) EXCEPT
                              !.Title = title, !.IncludeFallbackPng = TRUE]
    /\ props = RegionProps(EmptyMap, EmptyMap)
    /\ Transform = NoTransform
    /\ svgRequest = <<>>
    /\ out = [op |-> "none", ok |-> TRUE, val |-> <<>>]
    /\ renders = 0
    /\ lookup = <<>>
    /\ lsIn = <<>>
    /\ lsOut = NotRun
    /\ fc = NotRun
    /\ pc = "request"

APIIdle ==
    UNCHANGED <<svgValue, Arcs, Transform, Objects, lsIn, lsOut, fc,
                request, svgRequest, renders, lookup, pngConverter, files, calls, http>>

(* renderMap(w, r): the body is read and parsed by CreateRenderRequest; an *)
(* error is answered with 400                                              *)
renderMap ==
    /\ pc = "request"
    /\ IF CreateRenderRequest(http.body) # ""
       THEN out' = HTTPError(CreateRenderRequest(http.body), 400) /\ pc' = "done"
       ELSE out' = out /\ pc' = "parsed"
    /\ UNCHANGED <<props, rendering>>
    /\ APIIdle

(* what the handler leaves once the renderer got as far as s: it waits for *)
(* Convert, it holds the bytes to write, or the renderer has panicked,     *)
(* which ends the request without a response                              *)
renderMapStep(s) ==
    /\ props' = s.heap
    /\ CASE s.step.kind = "convert" ->
               /\ rendering' = [op |-> "RenderHTMLWithSVG", svgRequest |-> s.svgRequest,
                                step |-> s.step]
               /\ out' = out
               /\ pc' = "converting"
         [] s.step.kind = "return" ->
               /\ rendering' = <<>>
               /\ out' = Returned("RenderHTML", s.step.doc)
               /\ pc' = "rendered"
         [] s.step.kind = "panic" ->
               /\ rendering' = <<>>
               /\ out' = Panicked("renderMap")
               /\ pc' = "done"

(* renderMap: ValidateRenderRequest, answered with 400 when it fails; then *)
(* the switch on the render type: "html" is rendered, every other type is  *)
(* answered with 404                                                       *)
renderMapSwitch ==
    /\ pc = "parsed"
    /\ IF ~ValidateRenderRequest(request)
       THEN /\ out' = HTTPError("Missing mandatory field(s)", 400)
            /\ pc' = "done"
            /\ UNCHANGED <<props, rendering>>
       ELSE IF http.renderType # "html"
       THEN /\ out' = HTTPError("Unknown render type", 404)
            /\ pc' = "done"
            /\ UNCHANGED <<props, rendering>>
       ELSE \E order \in Orders(Len(Objects)) :
               \E sorted \in sortBreaks(request.Choropleth.Breaks, TRUE) :
                   \E breaks \in sortBreaks(request.Choropleth.Breaks, FALSE) :
                       renderMapStep(RenderHTML(request, props, order, sorted, breaks,
                                                pngConverter))
    /\ APIIdle

(* pngConverter.Convert returns to the renderer the handler waits for *)
renderMapConverted ==
    /\ pc = "converting"
    /\ \E outcome \in ConvertOutcomes :
          renderMapStep(Started(props, rendering.svgRequest,
                                afterConvert(RenderOf(rendering.op, request,
                                                      rendering.svgRequest, pngConverter),
                                             rendering.step, outcome)))
    /\ APIIdle

(* renderMap: the renderer returned no error; the content type is set,     *)
(* w.WriteHeader(http.StatusOK) and w.Write(bytes)                         *)
renderMapWrite ==
    /\ pc = "rendered"
    /\ out' = Response(200, "text/html", out.val)
    /\ pc' = "done"
    /\ UNCHANGED <<props, rendering>>
    /\ APIIdle

NextAPI == renderMap \/ renderMapSwitch \/ renderMapConverted \/ renderMapWrite

SpecAPI == InitAPI /\ [][NextAPI]_vars

(* Claims about the endpoint *)

Answered == out.op = "renderMap"

BodyAccepted == CreateRenderRequest(http.body) = "" /\ ValidateRenderRequest(request)

(* C26: for POST /render/{render_type} a body that cannot be parsed or     *)
(* fails validation yields 400; a valid body with a render type other than *)
(* svg or png yields 404 with the body "Unknown render type"; a valid body *)
(* with render type svg or png yields 200 with Content-Type text/html.     *)
C26_StatusCodes ==
    Answered =>
        /\ ~BodyAccepted => (out.ok /\ out.val.code = 400)
        /\ (BodyAccepted /\ http.renderType \notin {"svg", "png"}) =>
              (out.ok /\ out.val.code = 404 /\ out.val.body = "Unknown render type")
        /\ (BodyAccepted /\ http.renderType \in {"svg", "png"}) =>
              (out.ok /\ out.val.code = 200 /\ out.val.contentType = "text/html")

(* C26, a body that cannot be read: 400 with the message of                *)
(* ErrorReadingBody                                                        *)
C26_UnreadableWitness ==
    /\ Answered
    /\ http.body = "unreadable"
    /\ out.ok
    /\ out.val.code = 400
    /\ out.val.body = "Failed to read message body"

(* C26, the part that holds: a body that cannot be parsed or fails         *)
(* validation is answered with 400, a valid body with a render type other  *)
(* than html with 404 and "Unknown render type", and 200 comes with the    *)
(* content type text/html                                                  *)
C26_StatusOfEveryResponse ==
    Answered =>
        /\ ~BodyAccepted => (out.ok /\ out.val.code = 400)
        /\ (BodyAccepted /\ http.renderType # "html") =>
              (out.ok /\ out.val.code = 404 /\ out.val.body = "Unknown render type")
        /\ (out.ok /\ out.val.code = 200) =>
              (http.renderType = "html" /\ out.val.contentType = "text/html")

(* C26 witness: a valid body, render type svg: the answer is 404 *)
C26_Witness ==
    /\ Answered
    /\ BodyAccepted
    /\ http.renderType = "svg"
    /\ out.ok
    /\ out.val.code = 404
    /\ out.val.body = "Unknown render type"

(* C26, the answers: 400, 404 for a type that is unknown to the claim too, *)
(* and 200 for the type html, for which the claim asks 404                 *)
C26_BadRequestWitness ==
    Answered /\ out.ok /\ http.body = "json" /\ ~BodyAccepted /\ out.val.code = 400

C26_NotFoundWitness ==
    Answered /\ out.ok /\ BodyAccepted /\ http.renderType = "foo" /\ out.val.code = 404

C26_OKWitness ==
    /\ Answered /\ out.ok /\ BodyAccepted /\ http.renderType = "html"
    /\ out.val.code = 200
    /\ CountTag(out.val.body, "figure") = 1

(* the renderer panics under renderMap: a valid body without a choropleth, *)
(* render type html                                                        *)
C26_PanicWitness ==
    /\ Answered
    /\ BodyAccepted
    /\ http.renderType = "html"
    /\ request.Choropleth.nil
    /\ ~out.ok


----------------------------------------------------------------------------
(* Claims about the renderer given a request that passed validation *)

(* the request passed ValidateRenderRequest and has a choropleth *)
ValidWithChoropleth == ValidateRenderRequest(request) /\ ~request.Choropleth.nil

RendererOps ==
    {"PrepareSVGRequest", "RenderSVG", "RenderVerticalKey", "RenderHorizontalKey"}

(* C27: for every request that passes ValidateRenderRequest and has a      *)
(* choropleth, PrepareSVGRequest, RenderSVG, RenderVerticalKey and         *)
(* RenderHorizontalKey return without panicking, whatever the number of    *)
(* breaks, zero and one included.                                          *)
C27_ValidRequestNeverPanics ==
    (ValidWithChoropleth /\ out.op \in RendererOps) => out.ok

(* C27, the part that holds: with two or more breaks PrepareSVGRequest and *)
(* both keys return for every such request.                                *)
C27_ReturnsWithTwoBreaks ==
    ( /\ ValidWithChoropleth
      /\ Len(request.Choropleth.Breaks) >= 2
      /\ out.op \in RendererOps \ {"RenderSVG"} ) => out.ok

(* C27: a valid request whose choropleth has no break was prepared, there  *)
(* is a map to draw, and a key panicked on it.                             *)
C27_Witness ==
    /\ ValidWithChoropleth
    /\ Len(request.Choropleth.Breaks) = 0
    /\ out.op \in {"RenderVerticalKey", "RenderHorizontalKey"}
    /\ ~out.ok
    /\ ~svgRequest.geoJSON.nil
    /\ svgRequest.breaks = <<>>

(* C27: a valid request with exactly one break made PrepareSVGRequest panic *)
C27_OneBreakWitness ==
    /\ ValidWithChoropleth
    /\ Len(request.Choropleth.Breaks) = 1
    /\ out = Panicked("PrepareSVGRequest")

(* C27: a valid request without breaks whose data names a region made      *)
(* RenderSVG panic in getColour                                            *)
C27_NoBreakColourWitness ==
    /\ ValidWithChoropleth
    /\ Len(request.Choropleth.Breaks) = 0
    /\ out = Panicked("RenderSVG")

(* C27: a valid request with two breaks was prepared and a key returned it *)
C27_TwoBreaksWitness ==
    /\ ValidWithChoropleth
    /\ Len(request.Choropleth.Breaks) = 2
    /\ out.op \in {"RenderVerticalKey", "RenderHorizontalKey"}
    /\ out.ok
    /\ Len(out.val) = 2

====
